---- MODULE Spec2Model ----
(***************************************************************************)
(* A model of the probe engine of sentry_exporter: the lag prober (one     *)
(* goroutine per project, a shared failure counter, a buffered result      *)
(* channel and a WaitGroup), the process-wide project cache, the issues    *)
(* prober with its pagination walk, and the HTTP client construction.      *)
(***************************************************************************)
EXTENDS Integers, Sequences, FiniteSets, TLC

VARIABLES
    allProjectsCache,   \* sentry.go:106  var allProjectsCache []string
    timesSinceUpdate,   \* sentry.go:107  var timesSinceUpdate = 0
    config,             \* module.HTTP of the module the probes run with
    crashed,            \* the process died of an unrecovered panic in a goroutine
    orch,               \* per /probe handler goroutine: the frame of probeHTTPLag
    wk,                 \* per handler: the frames of its probeProjectLag goroutines
    out,                \* per handler: the metric lines written to w
    listCalls,          \* history: project-list requests issued so far
    servedSinceRefresh, \* history: executions of timesSinceUpdate++ since the last reset
    scrapes,            \* history: scrapes that have ended
    iss,                \* the frame of probeHTTPIssues in its handler goroutine
    call                \* the last call of probeHandler's dispatch, of reloadConfig or
                        \* of a function run on its own: name, arguments, result

vars == <<allProjectsCache, timesSinceUpdate, config, crashed, orch, wk, out,
          listCalls, servedSinceRefresh, scrapes, iss, call>>

----------------------------------------------------------------------------
(* Bounds of the model *)

\* lag scrapes run one after another in the specification Spec
MaxScrapes == 2
\* sequential all-projects scrapes in the specification SpecCache
MaxCacheScrapes == 54
\* lag scrapes served by the two concurrent handlers of SpecRace
MaxRaceScrapes == 3

(* Program constants *)

\* sentry.go:110  timesSinceUpdate > 50
StaleLimit == 50

\* the project slugs the upstream knows
Projects == {"p1", "p2"}
\* the project lists the project-list endpoint may answer with
ProjectLists == {<<>>, <<"p1">>, <<"p1", "p2">>}
\* the handler goroutines net/http may run at the same time
Handlers == {1, 2}
\* the values of the target query parameter: absent, or one project
LagTargets == {"", "p2"}
NoTarget == {""}

Range(s) == {s[i] : i \in DOMAIN s}

----------------------------------------------------------------------------
(* What the upstream and the transport may answer to one GET.              *)
(* doErr: client.Do returned a non-nil error; respNil: the *http.Response  *)
(* it returned is nil (every error but a refused redirect); status: the    *)
(* status code; malformed: the body is not JSON of the expected shape;     *)
(* val: the decoded JSON value otherwise.                                  *)

Reply(doErr, respNil, status, malformed, val) ==
    [doErr |-> doErr, respNil |-> respNil, status |-> status,
     malformed |-> malformed, val |-> val]

TransportError == Reply(TRUE, TRUE, 0, TRUE, <<>>)
RedirectError == Reply(TRUE, FALSE, 302, TRUE, <<>>)
BadStatus == Reply(FALSE, FALSE, 500, TRUE, <<>>)
Malformed == Reply(FALSE, FALSE, 200, TRUE, <<>>)
Good(val) == Reply(FALSE, FALSE, 200, FALSE, val)

\* a failed request; a reply whose body does not decode
RequestFailures == {TransportError, RedirectError, BadStatus}
FailingReplies == {TransportError, RedirectError, BadStatus, Malformed}

\* event-count series, oldest bucket first, each bucket <<timestamp, count>>
SeriesSet == { <<>>,
               << <<1, 2>>, <<2, 0>> >>,
               << <<1, 0>>, <<2, 1>> >> }

\* the replies of the stats endpoint, per stat
StatsReplies ==
    [received |-> {TransportError, RedirectError, BadStatus, Malformed,
                   Good(<<>>),
                   Good(<< <<1, 2>>, <<2, 0>> >>),
                   Good(<< <<1, 0>>, <<2, 1>> >>)},
     rejected |-> {TransportError, RedirectError, BadStatus,
                   Good(<< <<1, 0>>, <<2, 1>> >>)}]

\* the key list of a project: each key has a rate-limit descriptor or none
NoRateLimit == [Window |-> 0, Count |-> 0, present |-> FALSE]
KeyLists == { <<>>,
              << NoRateLimit >>,
              << [Window |-> 60, Count |-> 120, present |-> TRUE] >> }

KeysReplies ==
    {TransportError, RedirectError, BadStatus,
     Good(<< [Window |-> 60, Count |-> 120, present |-> TRUE] >>)}

ListReplies ==
    {TransportError, RedirectError, BadStatus, Malformed,
     Good(<<>>), Good(<<"p1">>), Good(<<"p1", "p2">>)}

\* the replies of an upstream that answers every call well
HealthyStats ==
    [received |-> {Good(<< <<1, 0>>, <<2, 1>> >>)},
     rejected |-> {Good(<< <<1, 0>>, <<2, 1>> >>)}]
HealthyKeys == {Good(<< NoRateLimit >>)}
HealthyLists == {Good(<<"p1">>)}

----------------------------------------------------------------------------
(* sentry.go:36-70 requestSentry.  "ok": (resp, nil) is returned; "err":   *)
(* an error value is returned; "panic": line 69 reads resp.StatusCode of   *)
(* the nil response client.Do returned together with its error.            *)

\* a requestSentry that accepts a 2xx status whatever the configured list says
requestSentry_Or2xx(cfg, reply) ==
    IF reply.doErr
    THEN IF reply.respNil THEN "panic" ELSE "err"
    ELSE IF reply.status \in Range(cfg.ValidStatusCodes)
            \/ (200 <= reply.status /\ reply.status < 300)
         THEN "ok" ELSE "err"

requestSentry(cfg, reply) ==
    IF reply.doErr
    THEN IF reply.respNil THEN "panic" ELSE "err"
    ELSE IF Len(cfg.ValidStatusCodes) # 0
         THEN IF reply.status \in Range(cfg.ValidStatusCodes) THEN "ok" ELSE "err"
         ELSE IF 200 <= reply.status /\ reply.status < 300 THEN "ok" ELSE "err"

(* prober_lag.go:57-79 extractErrorRate: the loop runs from the newest     *)
(* bucket to the oldest.                                                   *)
RECURSIVE ErrorRateLoop(_, _, _, _)
ErrorRateLoop(stats, i, count, latestTimestamp) ==
    IF i < 1 THEN [count |-> count, latestTimestamp |-> latestTimestamp, err |-> FALSE]
    ELSE LET ts == stats[i][1]
             c == stats[i][2]
         IN ErrorRateLoop(stats, i - 1, count + c,
                          IF latestTimestamp = 0 /\ c > 0 THEN ts ELSE latestTimestamp)

\* an extractErrorRate that leaves the newest bucket out, as the comment at
\* prober_lag.go:69 announces
extractErrorRate_IgnoreNewest(body) ==
    IF body.malformed
    THEN [count |-> 0, latestTimestamp |-> 0, err |-> TRUE]
    ELSE ErrorRateLoop(body.val, Len(body.val) - 1, 0, 0)

extractErrorRate(body) ==
    IF body.malformed
    THEN [count |-> 0, latestTimestamp |-> 0, err |-> TRUE]
    ELSE ErrorRateLoop(body.val, Len(body.val), 0, 0)

(* prober_lag.go:41-55 extractRateLimit; the quotient is kept as the pair  *)
(* <<Count, Window>> of the float division.                                *)
\* an extractRateLimit that reads the descriptor of the last key
extractRateLimit_LastKey(body) ==
    IF body.malformed THEN [rate |-> <<0, 1>>, err |-> TRUE]
    ELSE IF Len(body.val) = 0 \/ ~body.val[Len(body.val)].present
         THEN [rate |-> <<0, 1>>, err |-> FALSE]
    ELSE [rate |-> <<body.val[Len(body.val)].Count, body.val[Len(body.val)].Window>>,
          err |-> FALSE]

extractRateLimit(body) ==
    IF body.malformed THEN [rate |-> <<0, 1>>, err |-> TRUE]
    ELSE IF Len(body.val) = 0 \/ ~body.val[1].present THEN [rate |-> <<0, 1>>, err |-> FALSE]
    ELSE [rate |-> <<body.val[1].Count, body.val[1].Window>>, err |-> FALSE]

(* sentry.go:19-34 extractSentryProjects *)
extractSentryProjects(body) ==
    IF body.malformed THEN [projects |-> <<>>, err |-> TRUE]
    ELSE [projects |-> body.val, err |-> FALSE]

----------------------------------------------------------------------------
(* The metric lines written into the response writer.  den is the          *)
(* denominator of a %f value and 1 for a %d value.                         *)

Line(name, stat, project, value) ==
    [name |-> name, stat |-> stat, project |-> project, value |-> value, den |-> 1]

RateLine(project, rate) ==
    [name |-> "sentry_project_rate_limit_seconds_total", stat |-> "", project |-> project,
     value |-> rate[1], den |-> rate[2]]

\* the wall clock read by generateLag (prober_lag.go:80-82) during a scrape
Now == 10

generateLag(latestTimestamp) == Now - latestTimestamp

----------------------------------------------------------------------------
(* The issues prober (part_003).  The query parameters timeout and above,  *)
(* and the count strings of the stats records, are sequences of            *)
(* characters, so that strconv.Atoi and model.ParseDuration are computed;  *)
(* the empty sequence is the value url.Values.Get gives for a parameter    *)
(* that is not supplied.                                                   *)

\* part_003:195  above := 10000
DefaultAbove == 10000
\* part_003:203  period := "14d"
DefaultPeriod == "14d"
\* part_003:63  limit=25 in the issues-list URL
PageLimit == 25
\* pages one walk may fetch before the model stops following it
MaxPages == 3
\* issues scrapes run one after another in the specification SpecIssues
MaxIssueScrapes == 1

Digit ==
    [c \in {"0", "1", "2", "3", "4", "5", "6", "7", "8", "9"} |->
        CASE c = "0" -> 0 [] c = "1" -> 1 [] c = "2" -> 2 [] c = "3" -> 3
          [] c = "4" -> 4 [] c = "5" -> 5 [] c = "6" -> 6 [] c = "7" -> 7
          [] c = "8" -> 8 [] c = "9" -> 9]

IsDigits(s) == Len(s) > 0 /\ \A k \in 1..Len(s) : s[k] \in DOMAIN Digit

RECURSIVE DigitsValue(_)
DigitsValue(s) ==
    IF s = <<>> THEN 0
    ELSE 10 * DigitsValue(SubSeq(s, 1, Len(s) - 1)) + Digit[s[Len(s)]]

\* the largest int of a build whose int has 32 bits (386, arm); with 64
\* bits (amd64, arm64) it is 1<<63 - 1 and strconv.Atoi does the same
IntMax == 2147483647
IntMin == (0 - IntMax) - 1
\* the decimal digits of IntMax and of the magnitude of IntMin
IntMaxDigits == <<"2", "1", "4", "7", "4", "8", "3", "6", "4", "7">>
IntMinDigits == <<"2", "1", "4", "7", "4", "8", "3", "6", "4", "8">>

\* digits without their leading zeros
RECURSIVE StripZeros(_)
StripZeros(s) ==
    IF Len(s) > 1 /\ s[1] = "0" THEN StripZeros(Tail(s)) ELSE s

\* a <= b for two digit strings of the same length
RECURSIVE LeqDigits(_, _)
LeqDigits(a, b) ==
    IF a = <<>> THEN TRUE
    ELSE IF Digit[a[1]] < Digit[b[1]] THEN TRUE
    ELSE IF Digit[a[1]] > Digit[b[1]] THEN FALSE
    ELSE LeqDigits(Tail(a), Tail(b))

\* the magnitude written by digits fits an int of the sign
InIntRange(digits, negative) ==
    LET d == StripZeros(digits)
        most == IF negative THEN IntMinDigits ELSE IntMaxDigits
    IN Len(d) < Len(most) \/ (Len(d) = Len(most) /\ LeqDigits(d, most))

\* an Atoi that gives 0 with every error
Atoi_ZeroOnError(s) ==
    LET signed == Len(s) > 0 /\ s[1] \in {"+", "-"}
        body == IF signed THEN Tail(s) ELSE s
        negative == signed /\ s[1] = "-"
    IN IF ~IsDigits(body) \/ ~InIntRange(body, negative) THEN [n |-> 0, err |-> TRUE]
       ELSE IF StripZeros(body) = IntMinDigits THEN [n |-> IntMin, err |-> FALSE]
       ELSE [n |-> IF negative THEN 0 - DigitsValue(StripZeros(body))
                   ELSE DigitsValue(StripZeros(body)),
             err |-> FALSE]

\* strconv.Atoi (part_003:169, 200): an optional sign and decimal digits;
\* 0 and an error for anything else; the nearest int and an error for a
\* number out of the range of int
Atoi(s) ==
    LET signed == Len(s) > 0 /\ s[1] \in {"+", "-"}
        body == IF signed THEN Tail(s) ELSE s
        negative == signed /\ s[1] = "-"
    IN IF ~IsDigits(body) THEN [n |-> 0, err |-> TRUE]
       ELSE IF ~InIntRange(body, negative)
            THEN [n |-> IF negative THEN IntMin ELSE IntMax, err |-> TRUE]
       ELSE IF StripZeros(body) = IntMinDigits THEN [n |-> IntMin, err |-> FALSE]
       ELSE [n |-> IF negative THEN 0 - DigitsValue(StripZeros(body))
                   ELSE DigitsValue(StripZeros(body)),
             err |-> FALSE]

\* the units of a duration string, in seconds
Units == [u \in {"s", "m", "h"} |-> CASE u = "s" -> 1 [] u = "m" -> 60 [] u = "h" -> 3600]

\* model.ParseDuration (part_003:181): decimal digits and a unit; the zero
\* duration and an error for anything else.  Durations are in seconds.
ParseDuration(s) ==
    IF Len(s) >= 2 /\ s[Len(s)] \in DOMAIN Units /\ IsDigits(SubSeq(s, 1, Len(s) - 1))
    THEN [d |-> DigitsValue(SubSeq(s, 1, Len(s) - 1)) * Units[s[Len(s)]], err |-> FALSE]
    ELSE [d |-> 0, err |-> TRUE]

(* part_003:175-187 clientWithTimeout.  Timeout 0 is an http.Client that   *)
(* never times out.  Line 181 takes the parsed value when err != nil.      *)
clientWithTimeout(values, timeout) ==
    LET parsed == ParseDuration(values.timeout)
    IN [Timeout |-> IF values.timeout # <<>> /\ parsed.err THEN parsed.d ELSE timeout]

\* a prober in which the module configuration overrides the query parameter
above_ConfigFirst(values, cfg) ==
    IF cfg.Issues.Above > 0 THEN cfg.Issues.Above
    ELSE IF values.above # <<>> THEN Atoi(values.above).n
    ELSE DefaultAbove

\* part_003:195-201
above(values, cfg) ==
    IF values.above # <<>> THEN Atoi(values.above).n
    ELSE IF cfg.Issues.Above > 0 THEN cfg.Issues.Above
    ELSE DefaultAbove

\* part_003:203-209
period(values, cfg) ==
    IF values.period # "" THEN values.period
    ELSE IF cfg.Issues.Period # "" THEN cfg.Issues.Period
    ELSE DefaultPeriod

\* a prober that walks the issues with whatever period it resolved
PeriodIsValid_Any(p) == TRUE

\* part_003:210
PeriodIsValid(p) == p = "14d" \/ p = "24h"

(* The link header of an issues-list response: parts separated by ", ",    *)
(* each part a sequence of segments separated by ";".                      *)
Seg(key, val) == [key |-> key, val |-> val]

NoLink == <<>>
NextLink(cursor) ==
    << << Seg("rel", "previous"), Seg("results", "false"), Seg("cursor", "c0") >>,
       << Seg("rel", "next"), Seg("results", "true"), Seg("cursor", cursor) >> >>

\* a getSentryNextCursor that takes the cursor of the first part that has one
getSentryNextCursor_AnyPart(link) ==
    LET found == {k \in 1..Len(link) : \E j \in 1..Len(link[k]) : link[k][j].key = "cursor"}
    IN IF found = {}
       THEN [cursor |-> <<>>, err |-> TRUE]
       ELSE LET part == link[CHOOSE k \in found : \A m \in found : k <= m]
                j == CHOOSE a \in 1..Len(part) :
                        /\ part[a].key = "cursor"
                        /\ \A b \in 1..Len(part) : part[b].key = "cursor" => a <= b
            IN [cursor |-> <<"cursor=", part[j].val>>, err |-> FALSE]

\* sentry.go:72-89 getSentryNextCursor: the first part that is rel="next"
\* and has a cursor segment gives the cursor
getSentryNextCursor(link) ==
    LET HasCursor(part) == \E j \in 1..Len(part) : part[j].key = "cursor"
        IsNext(part) == \E j \in 1..Len(part) : part[j] = Seg("rel", "next")
        found == {k \in 1..Len(link) : IsNext(link[k]) /\ HasCursor(link[k])}
    IN IF found = {}
       THEN [cursor |-> <<>>, err |-> TRUE]
       ELSE LET part == link[CHOOSE k \in found : \A m \in found : k <= m]
                j == CHOOSE a \in 1..Len(part) :
                        /\ part[a].key = "cursor"
                        /\ \A b \in 1..Len(part) : part[b].key = "cursor" => a <= b
            IN [cursor |-> <<"cursor=", part[j].val>>, err |-> FALSE]

\* an issue of the issues list; a record of the issues-stats list
Issue(id, slug) == [Id |-> id, Slug |-> slug]
IssueStat(id, count) == [Id |-> id, Count |-> count]

\* the body and the link header of a well-formed issues-list response
Page(issues, link) == Good(<<issues, link>>)

IssuesListReplies ==
    {TransportError, RedirectError, BadStatus, Malformed,
     Page(<<>>, NoLink),
     Page(<<>>, NextLink("c1")),
     Page(<< Issue("1", "p1") >>, NoLink),
     Page(<< Issue("1", "p1") >>, NextLink("c1")),
     Page(<< Issue("1", "p1") >>, NextLink("c2")),
     Page(<< Issue("1", "p1"), Issue("2", "p2") >>, NoLink),
     Page(<< Issue("1", "p1"), Issue("2", "p2") >>, NextLink("c1")),
     Page(<< Issue("1", "p1"), Issue("2", "p2") >>, NextLink("c2"))}

IssuesStatsReplies ==
    {TransportError, RedirectError, BadStatus, Malformed,
     Good(<<>>),
     Good(<< IssueStat("1", <<"9">>) >>),
     Good(<< IssueStat("1", <<"x">>) >>),
     Good(<< IssueStat("3", <<"9">>) >>),
     Good(<< IssueStat("1", <<"9">>), IssueStat("2", <<"9">>) >>),
     Good(<< IssueStat("1", <<"9">>), IssueStat("2", <<"3">>) >>),
     Good(<< IssueStat("1", <<"2", "0", "0", "0", "0">>), IssueStat("2", <<"9">>) >>)}

\* part_003:118-129 extractIssues
extractIssues(body) ==
    IF body.malformed THEN [keys |-> <<>>, err |-> TRUE]
    ELSE [keys |-> body.val[1], err |-> FALSE]

\* a Go map filled by assignments in sequence order: the last one wins
LastOf(seq, id) ==
    seq[CHOOSE k \in 1..Len(seq) :
            seq[k].Id = id /\ \A m \in 1..Len(seq) : seq[m].Id = id => m <= k]

Ids(seq) == {seq[k].Id : k \in 1..Len(seq)}

\* part_003:143-173 getIssueCountForIds
getIssueCountForIds(cfg, reply) ==
    LET res == requestSentry(cfg, reply)
        data == reply.val
    IN IF res = "panic" THEN [ret |-> <<>>, err |-> TRUE, panic |-> TRUE]
       ELSE IF res = "err" \/ reply.malformed
            THEN [ret |-> <<>>, err |-> TRUE, panic |-> FALSE]
            ELSE [ret |-> [id \in Ids(data) |-> Atoi(LastOf(data, id).Count).n],
                  err |-> FALSE, panic |-> FALSE]

\* a map from project slug to count: a slug has a key iff its count is not 0
NoCounts == [p \in Projects |-> 0]

RECURSIVE SumOf(_, _)
SumOf(counts, slugs) ==
    IF slugs = {} THEN 0
    ELSE LET p == CHOOSE q \in slugs : TRUE
         IN counts[p] + SumOf(counts, slugs \ {p})

(* part_003:59-106 getIssuesListByFreq.  calls: the upstream requests the  *)
(* call issued; failed: the step that ended it early.                      *)
FreqResult(countPerProject, nextExtra, err, panic, calls, failed) ==
    [countPerProject |-> countPerProject, nextExtra |-> nextExtra, err |-> err,
     panic |-> panic, calls |-> calls, failed |-> failed]

\* a getIssuesListByFreq that extracts the next cursor whatever the counts are
getIssuesListByFreq_AlwaysMore(thresh, cfg, listReply, statsReply) ==
    LET res == requestSentry(cfg, listReply)
        issues == extractIssues(listReply)
        issueIdToProject ==
            [id \in Ids(issues.keys) |-> LastOf(issues.keys, id).Slug]
        counts == getIssueCountForIds(cfg, statsReply)
        countPerIssueIds == counts.ret
        known == DOMAIN countPerIssueIds \cap DOMAIN issueIdToProject
        high == {id \in known : countPerIssueIds[id] >= thresh}
        more == high = known
        countPerProject ==
            [p \in Projects |-> Cardinality({id \in high : issueIdToProject[id] = p})]
    IN IF res = "panic" THEN FreqResult(NoCounts, <<>>, TRUE, TRUE, 1, "list")
       ELSE IF res = "err" THEN FreqResult(NoCounts, <<>>, TRUE, FALSE, 1, "list")
       ELSE IF issues.err THEN FreqResult(NoCounts, <<>>, TRUE, FALSE, 1, "decode")
       ELSE IF counts.panic THEN FreqResult(NoCounts, <<>>, TRUE, TRUE, 2, "stats")
       ELSE IF counts.err THEN FreqResult(NoCounts, <<>>, TRUE, FALSE, 2, "stats")
       ELSE FreqResult(countPerProject,
                       getSentryNextCursor(listReply.val[2]).cursor,
                       FALSE, FALSE, 2, "none")

\* a getIssuesListByFreq for which a count equal to the threshold does not qualify
getIssuesListByFreq_Strict(thresh, cfg, listReply, statsReply) ==
    LET res == requestSentry(cfg, listReply)
        issues == extractIssues(listReply)
        issueIdToProject ==
            [id \in Ids(issues.keys) |-> LastOf(issues.keys, id).Slug]
        counts == getIssueCountForIds(cfg, statsReply)
        countPerIssueIds == counts.ret
        known == DOMAIN countPerIssueIds \cap DOMAIN issueIdToProject
        high == {id \in known : countPerIssueIds[id] > thresh}
        more == high = known
        countPerProject ==
            [p \in Projects |-> Cardinality({id \in high : issueIdToProject[id] = p})]
    IN IF res = "panic" THEN FreqResult(NoCounts, <<>>, TRUE, TRUE, 1, "list")
       ELSE IF res = "err" THEN FreqResult(NoCounts, <<>>, TRUE, FALSE, 1, "list")
       ELSE IF issues.err THEN FreqResult(NoCounts, <<>>, TRUE, FALSE, 1, "decode")
       ELSE IF counts.panic THEN FreqResult(NoCounts, <<>>, TRUE, TRUE, 2, "stats")
       ELSE IF counts.err THEN FreqResult(NoCounts, <<>>, TRUE, FALSE, 2, "stats")
       ELSE FreqResult(countPerProject,
                       IF more THEN getSentryNextCursor(listReply.val[2]).cursor
                       ELSE <<>>,
                       FALSE, FALSE, 2, "none")

\* a getIssuesListByFreq that ends the walk at a page listing an issue the
\* stats response has no record of
getIssuesListByFreq_ListedFails(thresh, cfg, listReply, statsReply) ==
    LET res == requestSentry(cfg, listReply)
        issues == extractIssues(listReply)
        issueIdToProject ==
            [id \in Ids(issues.keys) |-> LastOf(issues.keys, id).Slug]
        counts == getIssueCountForIds(cfg, statsReply)
        countPerIssueIds == counts.ret
        known == DOMAIN countPerIssueIds \cap DOMAIN issueIdToProject
        high == {id \in known : countPerIssueIds[id] >= thresh}
        more == high = known /\ Ids(issues.keys) \subseteq DOMAIN countPerIssueIds
        countPerProject ==
            [p \in Projects |-> Cardinality({id \in high : issueIdToProject[id] = p})]
    IN IF res = "panic" THEN FreqResult(NoCounts, <<>>, TRUE, TRUE, 1, "list")
       ELSE IF res = "err" THEN FreqResult(NoCounts, <<>>, TRUE, FALSE, 1, "list")
       ELSE IF issues.err THEN FreqResult(NoCounts, <<>>, TRUE, FALSE, 1, "decode")
       ELSE IF counts.panic THEN FreqResult(NoCounts, <<>>, TRUE, TRUE, 2, "stats")
       ELSE IF counts.err THEN FreqResult(NoCounts, <<>>, TRUE, FALSE, 2, "stats")
       ELSE FreqResult(countPerProject,
                       IF more THEN getSentryNextCursor(listReply.val[2]).cursor
                       ELSE <<>>,
                       FALSE, FALSE, 2, "none")

getIssuesListByFreq(thresh, cfg, listReply, statsReply) ==
    LET res == requestSentry(cfg, listReply)
        issues == extractIssues(listReply)
        issueIdToProject ==
            [id \in Ids(issues.keys) |-> LastOf(issues.keys, id).Slug]
        counts == getIssueCountForIds(cfg, statsReply)
        countPerIssueIds == counts.ret
        known == DOMAIN countPerIssueIds \cap DOMAIN issueIdToProject
        high == {id \in known : countPerIssueIds[id] >= thresh}
        more == high = known
        countPerProject ==
            [p \in Projects |-> Cardinality({id \in high : issueIdToProject[id] = p})]
    IN IF res = "panic" THEN FreqResult(NoCounts, <<>>, TRUE, TRUE, 1, "list")
       ELSE IF res = "err" THEN FreqResult(NoCounts, <<>>, TRUE, FALSE, 1, "list")
       ELSE IF issues.err THEN FreqResult(NoCounts, <<>>, TRUE, FALSE, 1, "decode")
       ELSE IF counts.panic THEN FreqResult(NoCounts, <<>>, TRUE, TRUE, 2, "stats")
       ELSE IF counts.err THEN FreqResult(NoCounts, <<>>, TRUE, FALSE, 2, "stats")
       ELSE FreqResult(countPerProject,
                       IF more THEN getSentryNextCursor(listReply.val[2]).cursor
                       ELSE <<>>,
                       FALSE, FALSE, 2, "none")

----------------------------------------------------------------------------
(* The frames.                                                             *)

IdleOrch ==
    [pc |-> "idle", target |-> "", targets |-> <<>>, failures |-> 0, ch |-> <<>>,
     wg |-> 0, launched |-> 0, received |-> 0, latestTimestamp |-> -1, reg |-> 0,
     fetched |-> <<>>, ret |-> FALSE,
     \* the probe_success value written to the response, -1 while none is
     probe_success |-> -1,
     \* history: how the project-list refresh of this scrape ended ("none"
     \* while there was none); in an idle frame, that of the scrape before
     refresh |-> "none",
     \* history: the globals and listCalls when the scrape began, and how the
     \* refresh of the scrape before ended
     snap |-> [cache |-> <<>>, tsu |-> 0, listCalls |-> 0, refresh |-> "none"]]

\* the frame of one probeProjectLag goroutine before "go" starts it
IdleWorker ==
    [stage |-> "idle", step |-> "call", latestTimestamp |-> 0, reg |-> 0,
     \* the lines the worker is writing, and the err its call will return
     pending |-> {}, err |-> FALSE,
     \* history: another worker was inside a write during this write
     raced |-> FALSE,
     failed |-> <<>>, calls |-> <<>>,
     \* history: the answers to the stats calls, in the order of calls
     answers |-> <<>>]

\* config.Headers of a module that configures no header
NoHeaders == <<>>

\* the issues section of a module that configures none
NoIssuesOptions == [Timeout |-> 0, Period |-> "", Above |-> 0]

\* module.HTTP of a module that configures nothing
NoModule ==
    [RateLimit |-> FALSE, ValidStatusCodes |-> <<>>, Headers |-> NoHeaders,
     Issues |-> NoIssuesOptions]

\* call before any call
NoCall == [name |-> "", args |-> <<>>, result |-> <<>>]

\* no page was fetched yet
NoPage == [list |-> <<>>, stats |-> <<>>, issuesList |-> <<>>, total |-> 0]

\* the frame of probeHTTPIssues before a scrape starts it
NoValues == [timeout |-> <<>>, above |-> <<>>, period |-> ""]

IdleIssues ==
    [pc |-> "idle", values |-> NoValues, client |-> [Timeout |-> 0],
     \* part_000:181-185: the module of the configuration read when the
     \* request came in
     module |-> NoModule,
     above |-> 0, period |-> "", extra |-> <<>>, issuesList |-> NoCounts,
     total |-> 0, lines |-> {}, ret |-> FALSE,
     \* the probe_success value written to the response, -1 while none is
     probe_success |-> -1,
     \* history: pages fetched, cursors used, whether one was used twice,
     \* upstream requests issued, the step that failed
     pages |-> 0, used |-> {}, reused |-> FALSE, upCalls |-> 0, failed |-> "none",
     \* history: the value of call when the scrape began
     before |-> NoCall,
     \* history: the replies to the two requests of the last page, and the
     \* per-project counts and the total before that page
     page |-> NoPage]

Configs ==
    [RateLimit : BOOLEAN, ValidStatusCodes : {<<>>}, Headers : {NoHeaders},
     Issues : {NoIssuesOptions}]

LagInit ==
    /\ allProjectsCache = <<>>
    /\ timesSinceUpdate = 0
    /\ config \in Configs
    /\ crashed = FALSE
    /\ orch = [h \in Handlers |-> IdleOrch]
    /\ wk = [h \in Handlers |-> <<>>]
    /\ out = [h \in Handlers |-> {}]
    /\ listCalls = 0
    /\ servedSinceRefresh = 0
    /\ scrapes = 0
    /\ iss = IdleIssues
    /\ call = NoCall

----------------------------------------------------------------------------
(* prober_lag.go:145-157 probeHTTPLag, up to the choice of the targets.    *)

\* a prober that consults the project cache whatever the target parameter
UsesExplicitTarget_Never(target) == FALSE

\* prober_lag.go:153: an explicit target is used alone, the cache is not consulted
UsesExplicitTarget(target) == target # ""

ProbeLagStart(h, targetSet, limit) ==
    /\ ~crashed
    /\ orch[h].pc = "idle"
    /\ scrapes < limit
    /\ \E target \in targetSet :
         LET snap == [cache |-> allProjectsCache, tsu |-> timesSinceUpdate,
                      listCalls |-> listCalls, refresh |-> orch[h].refresh]
         IN orch' = [orch EXCEPT ![h] =
                       IF UsesExplicitTarget(target)
                       THEN [IdleOrch EXCEPT !.pc = "launch", !.target = target,
                                             !.targets = <<target>>, !.snap = snap]
                       ELSE [IdleOrch EXCEPT !.pc = "check", !.target = target,
                                             !.snap = snap]]
    /\ wk' = [wk EXCEPT ![h] = [i \in 1..Len(orch'[h].targets) |-> IdleWorker]]
    /\ UNCHANGED <<allProjectsCache, timesSinceUpdate, config, iss, crashed, out, listCalls,
                   servedSinceRefresh, scrapes, call>>

(* sentry.go:109-118 getOrUpdateProjectsList.  The globals are read and    *)
(* written without a lock, so each access is a step of its own.            *)

\* a refresh as soon as the counter reaches the limit
CacheNeedsRefresh_AtLimit(cache, tsu) == Len(cache) = 0 \/ tsu >= StaleLimit

\* a refresh on every scrape
CacheNeedsRefresh_Always(cache, tsu) == TRUE

\* a refresh one scrape later than the limit asks for
CacheNeedsRefresh_Late(cache, tsu) == Len(cache) = 0 \/ tsu > StaleLimit + 1

\* sentry.go:110
CacheNeedsRefresh(cache, tsu) == Len(cache) = 0 \/ tsu > StaleLimit

CacheCheck(h) ==
    /\ ~crashed
    /\ orch[h].pc = "check"
    /\ orch' = [orch EXCEPT ![h].pc =
                  IF CacheNeedsRefresh(allProjectsCache, timesSinceUpdate)
                  THEN "list" ELSE "bumpRead"]
    /\ UNCHANGED <<allProjectsCache, timesSinceUpdate, config, iss, crashed, wk, out,
                   listCalls, servedSinceRefresh, scrapes, call>>

\* how a refresh answered by reply ends: the request fails (sentry.go:92,
\* err # nil), the body does not decode (sentry.go:96), or neither
RefreshOutcome(cfg, reply) ==
    IF requestSentry(cfg, reply) # "ok" THEN "error"
    ELSE IF extractSentryProjects(reply).err THEN "undecodable"
    ELSE "ok"

\* sentry.go:91-104 allSentryProjects; recorded: the frame keeps how the
\* refresh ended
AllSentryProjectsOf(h, replies, recorded) ==
    /\ ~crashed
    /\ orch[h].pc = "list"
    /\ listCalls' = listCalls + 1
    /\ \E reply \in replies :
         LET res == requestSentry(config, reply)
             ex == extractSentryProjects(reply)
             how == IF recorded THEN RefreshOutcome(config, reply) ELSE "none"
         IN CASE res = "panic" ->
                   \* the panic unwinds the handler goroutine; net/http recovers
                   \* it and drops the response
                   /\ orch' = [orch EXCEPT ![h].pc = "panic", ![h].refresh = how]
                   /\ UNCHANGED out
              [] res = "err" ->
                   /\ orch' = [orch EXCEPT ![h].pc = "storeCache",
                                           ![h].fetched = <<>>,
                                           ![h].failures = @ + 1,
                                           ![h].refresh = how]
                   /\ UNCHANGED out
              [] res = "ok" ->
                   /\ orch' = [orch EXCEPT ![h].pc = "storeCache",
                                           ![h].fetched = ex.projects,
                                           ![h].refresh = how]
                   /\ out' = [out EXCEPT ![h] = @ \cup
                                {Line("sentry_projects_total", "", "", Len(ex.projects))}]
    /\ UNCHANGED <<allProjectsCache, timesSinceUpdate, config, iss, crashed, wk,
                   servedSinceRefresh, scrapes, call>>

AllSentryProjects(h, replies) == AllSentryProjectsOf(h, replies, FALSE)

\* sentry.go:111, the assignment to the global
CacheStore(h) ==
    /\ ~crashed
    /\ orch[h].pc = "storeCache"
    /\ allProjectsCache' = orch[h].fetched
    /\ orch' = [orch EXCEPT ![h].pc = "reset"]
    /\ UNCHANGED <<timesSinceUpdate, config, iss, crashed, wk, out, listCalls,
                   servedSinceRefresh, scrapes, call>>

\* sentry.go:112
CounterReset(h) ==
    /\ ~crashed
    /\ orch[h].pc = "reset"
    /\ timesSinceUpdate' = 0
    /\ servedSinceRefresh' = 0
    /\ orch' = [orch EXCEPT ![h].pc = "return"]
    /\ UNCHANGED <<allProjectsCache, config, iss, crashed, wk, out, listCalls, scrapes, call>>

\* sentry.go:114, the read of timesSinceUpdate++
CounterRead(h) ==
    /\ ~crashed
    /\ orch[h].pc = "bumpRead"
    /\ orch' = [orch EXCEPT ![h].pc = "bumpWrite", ![h].reg = timesSinceUpdate]
    /\ UNCHANGED <<allProjectsCache, timesSinceUpdate, config, iss, crashed, wk, out,
                   listCalls, servedSinceRefresh, scrapes, call>>

\* sentry.go:114, the write of timesSinceUpdate++
CounterWrite(h) ==
    /\ ~crashed
    /\ orch[h].pc = "bumpWrite"
    /\ timesSinceUpdate' = orch[h].reg + 1
    /\ servedSinceRefresh' = servedSinceRefresh + 1
    /\ orch' = [orch EXCEPT ![h].pc = "return", ![h].reg = 0]
    /\ UNCHANGED <<allProjectsCache, config, iss, crashed, wk, out, listCalls, scrapes, call>>

\* sentry.go:117 and prober_lag.go:156
CacheReturn(h) ==
    /\ ~crashed
    /\ orch[h].pc = "return"
    /\ orch' = [orch EXCEPT ![h].pc = "launch", ![h].targets = allProjectsCache,
                            ![h].fetched = <<>>]
    /\ wk' = [wk EXCEPT ![h] = [i \in 1..Len(allProjectsCache) |-> IdleWorker]]
    /\ UNCHANGED <<allProjectsCache, timesSinceUpdate, config, iss, crashed, out,
                   listCalls, servedSinceRefresh, scrapes, call>>

----------------------------------------------------------------------------
(* prober_lag.go:160-166: the launch loop.  ch has capacity len(targets).  *)

LaunchWorker(h) ==
    /\ ~crashed
    /\ orch[h].pc = "launch"
    /\ orch[h].launched < Len(orch[h].targets)
    /\ LET i == orch[h].launched + 1
       IN /\ orch' = [orch EXCEPT ![h].launched = i, ![h].wg = @ + 1]
          /\ wk' = [wk EXCEPT ![h][i].stage = "received"]
    /\ UNCHANGED <<allProjectsCache, timesSinceUpdate, config, iss, crashed, out,
                   listCalls, servedSinceRefresh, scrapes, call>>

LaunchDone(h) ==
    /\ ~crashed
    /\ orch[h].pc = "launch"
    /\ orch[h].launched = Len(orch[h].targets)
    /\ orch' = [orch EXCEPT ![h].pc = "receive"]
    /\ UNCHANGED <<allProjectsCache, timesSinceUpdate, config, iss, crashed, wk, out,
                   listCalls, servedSinceRefresh, scrapes, call>>

----------------------------------------------------------------------------
(* prober_lag.go:122-143 probeProjectLag, goroutine i of handler h.        *)

\* prober_lag.go:127, 131: the stats a worker requests
EventStats == {"received", "rejected"}

\* prober_lag.go:127-142: the step that follows stage
NextStage(stage, rateLimit) ==
    CASE stage = "received" -> "rejected"
      [] stage = "rejected" -> IF rateLimit THEN "keys" ELSE "send"
      [] stage = "keys" -> "send"

\* prober_lag.go:128-130, 132-134, 137-139: where a call that returned err goes
AfterCall(stage, err, rateLimit) ==
    IF err THEN [stage |-> stage, step |-> "read"]
    ELSE [stage |-> NextStage(stage, rateLimit), step |-> "call"]

\* prober_lag.go:84-104 requestEventCount, the lines it writes
EventCountLines(stat, target, ex) ==
    {Line("sentry_events_total", stat, target, ex.count)} \cup
    IF ex.latestTimestamp > 0
    THEN {Line("sentry_project_latest_timestamp", stat, target, ex.latestTimestamp),
          Line("sentry_project_lag_seconds", stat, target, generateLag(ex.latestTimestamp))}
    ELSE {}

\* a worker that keeps the timestamp of the "rejected" call as well
KeptTimestamp_Both(stage, old, new) == new

\* prober_lag.go:127 and 131: only the "received" call's timestamp is kept
KeptTimestamp(stage, old, new) == IF stage = "received" THEN new ELSE old

\* the workers of handler h other than i that are inside a write to w
WritingWith(h, i) == {j \in DOMAIN wk[h] : j # i /\ wk[h][j].step = "write"}

(* fmt.Fprintf(w, ...) in a worker (prober_lag.go:95-98, 113): w is the    *)
(* http.ResponseWriter all the workers of the scrape share, and nothing    *)
(* orders their writes.  A worker that enters its write while another is   *)
(* inside one marks both writes as raced.  The actions of the two calls    *)
(* take the write as a step of its own (BeginWrite here, EndWrite below)   *)
(* when stepwise is TRUE, and as part of the step of the call otherwise.   *)
BeginWrite(h, i, frame, lines, err) ==
    [j \in DOMAIN wk[h] |->
        IF j = i
        THEN [frame EXCEPT !.step = "write", !.pending = lines, !.err = err,
                           !.raced = WritingWith(h, i) # {}]
        ELSE IF j \in WritingWith(h, i) THEN [wk[h][j] EXCEPT !.raced = TRUE]
        ELSE wk[h][j]]

\* recorded: the frame keeps the answers to the stats calls
RequestEventCountOf(h, i, replies, stepwise, recorded) ==
    /\ ~crashed
    /\ i \in DOMAIN wk[h]
    /\ wk[h][i].stage \in EventStats
    /\ wk[h][i].step = "call"
    /\ \E reply \in replies[wk[h][i].stage] :
         LET w == wk[h][i]
             res == requestSentry(config, reply)
             ex == extractErrorRate(reply)
             err == res = "err" \/ ex.err
             to == AfterCall(w.stage, err, config.RateLimit)
             called == [w EXCEPT !.calls = Append(@, w.stage),
                                 !.failed = IF err THEN Append(@, w.stage) ELSE @,
                                 !.answers = IF recorded THEN Append(@, reply) ELSE @,
                                 !.latestTimestamp =
                                     KeptTimestamp(w.stage, @,
                                         IF res = "ok" THEN ex.latestTimestamp ELSE 0)]
         IN CASE res = "panic" ->
                   /\ crashed' = TRUE
                   /\ wk' = [wk EXCEPT ![h][i].step = "panic"]
                   /\ UNCHANGED out
              [] res = "err" ->
                   /\ wk' = [wk EXCEPT ![h][i] =
                               [called EXCEPT !.stage = to.stage, !.step = to.step]]
                   /\ UNCHANGED <<crashed, out>>
              [] res = "ok" /\ stepwise ->
                   /\ wk' = [wk EXCEPT ![h] =
                               BeginWrite(h, i, called,
                                   EventCountLines(w.stage, orch[h].targets[i], ex), err)]
                   /\ UNCHANGED <<crashed, out>>
              [] res = "ok" /\ ~stepwise ->
                   /\ wk' = [wk EXCEPT ![h][i] =
                               [called EXCEPT !.stage = to.stage, !.step = to.step]]
                   /\ out' = [out EXCEPT ![h] = @ \cup
                                EventCountLines(w.stage, orch[h].targets[i], ex)]
                   /\ UNCHANGED crashed
    /\ UNCHANGED <<allProjectsCache, timesSinceUpdate, config, iss, orch, listCalls,
                   servedSinceRefresh, scrapes, call>>

RequestEventCount(h, i, replies, stepwise) ==
    RequestEventCountOf(h, i, replies, stepwise, FALSE)

\* prober_lag.go:106-118 requestRateLimit
RequestRateLimit(h, i, replies, stepwise) ==
    /\ ~crashed
    /\ i \in DOMAIN wk[h]
    /\ wk[h][i].stage = "keys"
    /\ wk[h][i].step = "call"
    /\ \E reply \in replies :
         LET w == wk[h][i]
             res == requestSentry(config, reply)
             ex == extractRateLimit(reply)
             err == res = "err" \/ ex.err
             to == AfterCall(w.stage, err, config.RateLimit)
             called == [w EXCEPT !.calls = Append(@, w.stage),
                                 !.failed = IF err THEN Append(@, w.stage) ELSE @]
         IN CASE res = "panic" ->
                   /\ crashed' = TRUE
                   /\ wk' = [wk EXCEPT ![h][i].step = "panic"]
                   /\ UNCHANGED out
              [] res = "err" ->
                   /\ wk' = [wk EXCEPT ![h][i] =
                               [called EXCEPT !.stage = to.stage, !.step = to.step]]
                   /\ UNCHANGED <<crashed, out>>
              [] res = "ok" /\ stepwise ->
                   /\ wk' = [wk EXCEPT ![h] =
                               BeginWrite(h, i, called,
                                   {RateLine(orch[h].targets[i], ex.rate)}, err)]
                   /\ UNCHANGED <<crashed, out>>
              [] res = "ok" /\ ~stepwise ->
                   /\ wk' = [wk EXCEPT ![h][i] =
                               [called EXCEPT !.stage = to.stage, !.step = to.step]]
                   /\ out' = [out EXCEPT ![h] = @ \cup
                                {RateLine(orch[h].targets[i], ex.rate)}]
                   /\ UNCHANGED crashed
    /\ UNCHANGED <<allProjectsCache, timesSinceUpdate, config, iss, orch, listCalls,
                   servedSinceRefresh, scrapes, call>>

\* what is left in the response of a write that raced with another
GarbledLine == [name |-> "garbled", stat |-> "", project |-> "", value |-> 0, den |-> 1]

(* The write returns.  A write that raced is a data race on the buffer of  *)
(* the response: the lines arrive whole, or mangled, or the write panics   *)
(* on the buffer's bounds inside the worker goroutine.                     *)
WriteOutcomes(w) ==
    IF w.raced THEN {"whole", "mangled", "panic"} ELSE {"whole"}

EndWrite(h, i) ==
    /\ ~crashed
    /\ i \in DOMAIN wk[h]
    /\ wk[h][i].step = "write"
    /\ \E outcome \in WriteOutcomes(wk[h][i]) :
         LET w == wk[h][i]
             to == AfterCall(w.stage, w.err, config.RateLimit)
         IN IF outcome = "panic"
            THEN /\ crashed' = TRUE
                 /\ wk' = [wk EXCEPT ![h][i].step = "panic"]
                 /\ UNCHANGED out
            ELSE /\ wk' = [wk EXCEPT ![h][i] =
                            [w EXCEPT !.stage = to.stage, !.step = to.step,
                                      !.pending = {}, !.err = FALSE, !.raced = FALSE]]
                 /\ out' = [out EXCEPT ![h] = @ \cup
                              IF outcome = "whole" THEN w.pending ELSE {GarbledLine}]
                 /\ UNCHANGED crashed
    /\ UNCHANGED <<allProjectsCache, timesSinceUpdate, config, iss, orch, listCalls,
                   servedSinceRefresh, scrapes, call>>

(* *failures++ (prober_lag.go:129, 133, 138) is a plain load and a plain   *)
(* store of the int the orchestrator's frame holds; no lock, no atomic.    *)

FailuresLoad(h, i) ==
    /\ ~crashed
    /\ i \in DOMAIN wk[h]
    /\ wk[h][i].step = "read"
    /\ wk' = [wk EXCEPT ![h][i].step = "write", ![h][i].reg = orch[h].failures]
    /\ UNCHANGED <<allProjectsCache, timesSinceUpdate, config, iss, crashed, orch, out,
                   listCalls, servedSinceRefresh, scrapes, call>>

\* the value the store of *failures++ writes
Incremented(loaded, current) == loaded + 1

FailuresStore(h, i) ==
    /\ ~crashed
    /\ i \in DOMAIN wk[h]
    /\ wk[h][i].step = "write"
    /\ orch' = [orch EXCEPT ![h].failures = Incremented(wk[h][i].reg, @)]
    /\ wk' = [wk EXCEPT ![h][i].step = "call", ![h][i].reg = 0,
                        ![h][i].stage = NextStage(@, config.RateLimit)]
    /\ UNCHANGED <<allProjectsCache, timesSinceUpdate, config, iss, crashed, out,
                   listCalls, servedSinceRefresh, scrapes, call>>

\* a result channel with room for one value less than there are targets
ChanCapacity_OneLess(targets) == Len(targets) - 1

\* prober_lag.go:161  make(chan int, len(targets))
ChanCapacity(targets) == Len(targets)

\* prober_lag.go:142  lastTsChan <- latestTimestamp; blocks while the buffer is full
ChanSend(h, i) ==
    /\ ~crashed
    /\ i \in DOMAIN wk[h]
    /\ wk[h][i].stage = "send"
    /\ Len(orch[h].ch) < ChanCapacity(orch[h].targets)
    /\ orch' = [orch EXCEPT ![h].ch = Append(@, wk[h][i].latestTimestamp)]
    /\ wk' = [wk EXCEPT ![h][i].stage = "exit"]
    /\ UNCHANGED <<allProjectsCache, timesSinceUpdate, config, iss, crashed, out,
                   listCalls, servedSinceRefresh, scrapes, call>>

\* prober_lag.go:123  defer wg.Done()
WorkerDone(h, i) ==
    /\ ~crashed
    /\ i \in DOMAIN wk[h]
    /\ wk[h][i].stage = "exit"
    /\ orch' = [orch EXCEPT ![h].wg = @ - 1]
    /\ wk' = [wk EXCEPT ![h][i].stage = "done"]
    /\ UNCHANGED <<allProjectsCache, timesSinceUpdate, config, iss, crashed, out,
                   listCalls, servedSinceRefresh, scrapes, call>>

----------------------------------------------------------------------------
(* prober_lag.go:168-189: the receive loop, the barrier, the aggregates.   *)

\* a receive loop that keeps the last nonzero timestamp it received
FoldTimestamp_Last(latestTimestamp, ts) ==
    IF ts = 0 THEN latestTimestamp ELSE ts

\* prober_lag.go:171-176
FoldTimestamp(latestTimestamp, ts) ==
    IF ts = 0 THEN latestTimestamp
    ELSE IF latestTimestamp = -1 \/ ts > latestTimestamp THEN ts
    ELSE latestTimestamp

ChanReceive(h) ==
    /\ ~crashed
    /\ orch[h].pc = "receive"
    /\ orch[h].received < Len(orch[h].targets)
    /\ Len(orch[h].ch) > 0
    /\ orch' = [orch EXCEPT ![h].ch = Tail(@),
                            ![h].received = @ + 1,
                            ![h].latestTimestamp = FoldTimestamp(@, Head(orch[h].ch))]
    /\ UNCHANGED <<allProjectsCache, timesSinceUpdate, config, iss, crashed, wk, out,
                   listCalls, servedSinceRefresh, scrapes, call>>

\* an orchestrator that goes on to the aggregates without the receive loop
\* and without the barrier
WaitGroupWait_NoBarrier(h) ==
    /\ ~crashed
    /\ orch[h].pc = "receive"
    /\ orch' = [orch EXCEPT ![h].pc = "aggregate"]
    /\ UNCHANGED <<allProjectsCache, timesSinceUpdate, config, iss, crashed, wk, out,
                   listCalls, servedSinceRefresh, scrapes, call>>

\* prober_lag.go:179  wg.Wait()
WaitGroupWait(h) ==
    /\ ~crashed
    /\ orch[h].pc = "receive"
    /\ orch[h].received = Len(orch[h].targets)
    /\ orch[h].wg = 0
    /\ orch' = [orch EXCEPT ![h].pc = "aggregate"]
    /\ UNCHANGED <<allProjectsCache, timesSinceUpdate, config, iss, crashed, wk, out,
                   listCalls, servedSinceRefresh, scrapes, call>>

\* prober_lag.go:180-184
AggregateLines(latestTimestamp, failures) ==
    (IF latestTimestamp > -1
     THEN {Line("sentry_events_latest_timestamp", "", "", latestTimestamp),
           Line("sentry_events_lag_seconds", "", "", generateLag(latestTimestamp))}
     ELSE {})
    \cup {Line("sentry_fetch_failures", "", "", failures)}

WriteAggregates(h) ==
    /\ ~crashed
    /\ orch[h].pc = "aggregate"
    /\ out' = [out EXCEPT ![h] = @ \cup
                 AggregateLines(orch[h].latestTimestamp, orch[h].failures)]
    /\ orch' = [orch EXCEPT ![h].pc = "done", ![h].ret = TRUE]
    /\ UNCHANGED <<allProjectsCache, timesSinceUpdate, config, iss, crashed, wk,
                   listCalls, servedSinceRefresh, scrapes, call>>

\* part_000:123-127
SuccessValue(success) == IF success THEN 1 ELSE 0

\* part_000:121-127: the prober has returned, probeHandler writes probe_success
ProbeSuccess(h) ==
    /\ ~crashed
    /\ orch[h].pc = "done"
    /\ orch' = [orch EXCEPT ![h].pc = "end",
                            ![h].probe_success = SuccessValue(orch[h].ret)]
    /\ UNCHANGED <<allProjectsCache, timesSinceUpdate, config, iss, crashed, wk, out,
                   listCalls, servedSinceRefresh, scrapes, call>>

\* part_000:128: probeHandler returns and the response ends, or net/http has
\* recovered the panic of the handler goroutine
ProbeLagReturn(h) ==
    /\ ~crashed
    /\ orch[h].pc \in {"end", "panic"}
    /\ orch' = [orch EXCEPT ![h] = [IdleOrch EXCEPT !.refresh = orch[h].refresh]]
    /\ wk' = [wk EXCEPT ![h] = <<>>]
    /\ out' = [out EXCEPT ![h] = {}]
    /\ scrapes' = scrapes + 1
    /\ UNCHANGED <<allProjectsCache, timesSinceUpdate, config, iss, crashed,
                   listCalls, servedSinceRefresh, call>>

----------------------------------------------------------------------------
(* The frame of probeHTTPIssues and the steps of an issues scrape.         *)

\* the query strings of the issues scrapes
IssuesValues ==
    [timeout : {<<>>, <<"5", "s">>, <<"a", "b", "c">>},
     above : {<<>>, <<"5">>, <<"x">>},
     period : {"", "24h", "7d"}]

\* the issues sections of the module configurations
IssuesOptions ==
    [Timeout : {0, 10}, Period : {"", "24h", "7d"}, Above : {0, 7}]

IssuesConfigs ==
    [RateLimit : {FALSE}, ValidStatusCodes : {<<>>}, Headers : {NoHeaders},
     Issues : IssuesOptions]

IssuesInit ==
    /\ allProjectsCache = <<>>
    /\ timesSinceUpdate = 0
    /\ config \in IssuesConfigs
    /\ crashed = FALSE
    /\ orch = [h \in Handlers |-> IdleOrch]
    /\ wk = [h \in Handlers |-> <<>>]
    /\ out = [h \in Handlers |-> {}]
    /\ listCalls = 0
    /\ servedSinceRefresh = 0
    /\ scrapes = 0
    /\ iss = IdleIssues
    /\ call = NoCall

\* part_003:191-213 probeHTTPIssues, up to the call of the walk
ProbeIssuesStart(valuesSet, limit) ==
    /\ iss.pc = "idle"
    /\ scrapes < limit
    /\ \E values \in valuesSet :
         LET client == clientWithTimeout(values, config.Issues.Timeout)
             a == above(values, config)
             p == period(values, config)
         IN iss' = [IdleIssues EXCEPT !.pc = IF PeriodIsValid(p) THEN "walk" ELSE "done",
                                      !.module = config, !.before = call,
                                      !.values = values, !.client = client,
                                      !.above = a, !.period = p, !.ret = FALSE]
    /\ UNCHANGED <<allProjectsCache, timesSinceUpdate, config, crashed, orch, wk, out,
                   listCalls, servedSinceRefresh, scrapes, call>>

\* a probe that reads the module from the configuration at each call
ModuleOf_Current(frame, current) == current

\* part_000:181-185, 104, 121: the handler reads sc.C once and passes the
\* module by value; the calls of the probe use that copy
ModuleOf(frame, current) == frame.module

\* part_003:36-50: one turn of the loop of requestIssueCountAboveThreshold;
\* the history of the page is kept when recorded is TRUE
WalkPageOf(listReplies, statsReplies, recorded) ==
    /\ iss.pc = "walk"
    /\ iss.pages < MaxPages
    /\ \E listReply \in listReplies, statsReply \in statsReplies :
         LET r == getIssuesListByFreq(iss.above, ModuleOf(iss, config), listReply,
                                          statsReply)
             seen == [iss EXCEPT !.pages = @ + 1,
                                 !.used = @ \cup {iss.extra},
                                 !.reused = @ \/ iss.extra \in iss.used,
                                 !.upCalls = @ + r.calls,
                                 !.failed = r.failed,
                                 !.page =
                                     IF recorded
                                     THEN [list |-> listReply, stats |-> statsReply,
                                           issuesList |-> iss.issuesList,
                                           total |-> iss.total]
                                     ELSE NoPage]
         IN iss' =
              IF r.panic THEN [seen EXCEPT !.pc = "panic"]
              ELSE IF r.err THEN [seen EXCEPT !.pc = "emit", !.extra = r.nextExtra]
              ELSE [seen EXCEPT
                      !.pc = IF r.nextExtra = <<>> THEN "emit" ELSE "walk",
                      !.extra = r.nextExtra,
                      !.issuesList = [p \in Projects |-> @[p] + r.countPerProject[p]],
                      !.total = @ + SumOf(r.countPerProject, Projects)]
    /\ UNCHANGED <<allProjectsCache, timesSinceUpdate, config, crashed, orch, wk, out,
                   listCalls, servedSinceRefresh, scrapes, call>>

WalkPage(listReplies, statsReplies) == WalkPageOf(listReplies, statsReplies, FALSE)

IssueLine(name, project, thresh, statsPeriod, value) ==
    [name |-> name, project |-> project, above |-> thresh, period |-> statsPeriod,
     value |-> value]

\* part_003:52-56
IssueLines(issuesList, total, thresh, statsPeriod) ==
    {IssueLine("sentry_project_high_freq_issues", p, thresh, statsPeriod, issuesList[p]) :
        p \in {q \in Projects : issuesList[q] # 0}}
    \cup {IssueLine("sentry_high_freq_issues", "", thresh, statsPeriod, total)}

\* part_003:52-57 and 219-221: the lines are written and the prober returns true
WriteIssueLines ==
    /\ iss.pc = "emit"
    /\ iss' = [iss EXCEPT !.pc = "done", !.ret = TRUE,
                          !.lines = IssueLines(iss.issuesList, iss.total,
                                               iss.above, iss.period)]
    /\ UNCHANGED <<allProjectsCache, timesSinceUpdate, config, crashed, orch, wk, out,
                   listCalls, servedSinceRefresh, scrapes, call>>

\* part_000:121-127: the prober has returned, probeHandler writes probe_success
IssuesProbeSuccess ==
    /\ iss.pc = "done"
    /\ iss' = [iss EXCEPT !.pc = "end", !.probe_success = SuccessValue(iss.ret)]
    /\ UNCHANGED <<allProjectsCache, timesSinceUpdate, config, crashed, orch, wk, out,
                   listCalls, servedSinceRefresh, scrapes, call>>

\* part_000:128: probeHandler returns and the response ends, or net/http has
\* recovered the panic of the handler goroutine
ProbeIssuesReturn ==
    /\ iss.pc \in {"end", "panic"}
    /\ iss' = IdleIssues
    /\ scrapes' = scrapes + 1
    /\ UNCHANGED <<allProjectsCache, timesSinceUpdate, config, crashed, orch, wk, out,
                   listCalls, servedSinceRefresh, call>>

----------------------------------------------------------------------------
(* Spec: lag scrapes served one after another by one handler, against an   *)
(* upstream that may answer every call in any way.                         *)

Worker(h, i) ==
    \/ RequestEventCount(h, i, StatsReplies, FALSE)
    \/ RequestRateLimit(h, i, KeysReplies, FALSE)
    \/ FailuresLoad(h, i)
    \/ FailuresStore(h, i)
    \/ ChanSend(h, i)
    \/ WorkerDone(h, i)

Orchestrator(h) ==
    \/ LaunchWorker(h)
    \/ LaunchDone(h)
    \/ ChanReceive(h)
    \/ WaitGroupWait(h)
    \/ WriteAggregates(h)
    \/ ProbeSuccess(h)
    \/ ProbeLagReturn(h)

Next ==
    \/ ProbeLagStart(1, LagTargets, MaxScrapes)
    \/ CacheCheck(1)
    \/ AllSentryProjects(1, ListReplies)
    \/ CacheStore(1)
    \/ CounterReset(1)
    \/ CounterRead(1)
    \/ CounterWrite(1)
    \/ CacheReturn(1)
    \/ Orchestrator(1)
    \/ \E i \in 1..Cardinality(Projects) : Worker(1, i)

Spec == LagInit /\ [][Next]_vars

----------------------------------------------------------------------------
(* SpecCache: all-projects lag scrapes served one after another against an *)
(* upstream that answers every call well.                                  *)

HealthyWorker(h, i) ==
    \/ RequestEventCount(h, i, HealthyStats, FALSE)
    \/ RequestRateLimit(h, i, HealthyKeys, FALSE)
    \/ ChanSend(h, i)
    \/ WorkerDone(h, i)

GetOrUpdateProjectsList(h, replies) ==
    \/ CacheCheck(h)
    \/ AllSentryProjects(h, replies)
    \/ CacheStore(h)
    \/ CounterReset(h)
    \/ CounterRead(h)
    \/ CounterWrite(h)
    \/ CacheReturn(h)

NextCache ==
    \/ ProbeLagStart(1, NoTarget, MaxCacheScrapes)
    \/ GetOrUpdateProjectsList(1, HealthyLists)
    \/ Orchestrator(1)
    \/ HealthyWorker(1, 1)

SpecCache == LagInit /\ [][NextCache]_vars

(* SpecReport: lag scrapes of one explicit target served one after        *)
(* another, every call answered in any way.                                *)

\* the target query parameter of a scrape of project p2
OneTarget == {"p2"}

ReportingWorker(h, i) ==
    \/ RequestEventCountOf(h, i, StatsReplies, FALSE, TRUE)
    \/ RequestRateLimit(h, i, KeysReplies, FALSE)
    \/ FailuresLoad(h, i)
    \/ FailuresStore(h, i)
    \/ ChanSend(h, i)
    \/ WorkerDone(h, i)

NextReport ==
    \/ ProbeLagStart(1, OneTarget, MaxScrapes)
    \/ Orchestrator(1)
    \/ ReportingWorker(1, 1)

SpecReport == LagInit /\ [][NextReport]_vars

(* SpecRefresh: all-projects lag scrapes served one after another, the     *)
(* project-list call answered in any way and every other call well.        *)

\* the answers to the project-list call
RefreshReplies ==
    {TransportError, RedirectError, BadStatus, Malformed, Good(<<"p1">>)}

NextRefresh ==
    \/ ProbeLagStart(1, NoTarget, MaxCacheScrapes)
    \/ CacheCheck(1)
    \/ AllSentryProjectsOf(1, RefreshReplies, TRUE)
    \/ CacheStore(1)
    \/ CounterReset(1)
    \/ CounterRead(1)
    \/ CounterWrite(1)
    \/ CacheReturn(1)
    \/ Orchestrator(1)
    \/ HealthyWorker(1, 1)

SpecRefresh == LagInit /\ [][NextRefresh]_vars

(* SpecRace: two /probe handlers serve all-projects lag scrapes at the     *)
(* same time (net/http runs each request in a goroutine of its own).       *)

NextRace ==
    \E h \in Handlers :
        \/ ProbeLagStart(h, NoTarget, MaxRaceScrapes)
        \/ GetOrUpdateProjectsList(h, HealthyLists)
        \/ Orchestrator(h)
        \/ HealthyWorker(h, 1)

SpecRace == LagInit /\ [][NextRace]_vars

----------------------------------------------------------------------------
(* SpecWrites: all-projects lag scrapes over two projects against an       *)
(* upstream that answers every call well, the writes of the workers taken  *)
(* as steps of their own.                                                  *)

\* lag scrapes run one after another in the specification SpecWrites
MaxWriteScrapes == 2

TwoProjectLists == {Good(<<"p1", "p2">>)}

StepwiseWorker(h, i) ==
    \/ RequestEventCount(h, i, HealthyStats, TRUE)
    \/ RequestRateLimit(h, i, HealthyKeys, TRUE)
    \/ EndWrite(h, i)
    \/ ChanSend(h, i)
    \/ WorkerDone(h, i)

NextWrites ==
    \/ ProbeLagStart(1, NoTarget, MaxWriteScrapes)
    \/ GetOrUpdateProjectsList(1, TwoProjectLists)
    \/ Orchestrator(1)
    \/ \E i \in 1..Cardinality(Projects) : StepwiseWorker(1, i)

SpecWrites == LagInit /\ [][NextWrites]_vars

----------------------------------------------------------------------------
(* The state in which no scrape is running and nothing was called; the     *)
(* specifications below start from it with a configuration of their own.   *)

IdleState ==
    /\ allProjectsCache = <<>>
    /\ timesSinceUpdate = 0
    /\ crashed = FALSE
    /\ orch = [h \in Handlers |-> IdleOrch]
    /\ wk = [h \in Handlers |-> <<>>]
    /\ out = [h \in Handlers |-> {}]
    /\ listCalls = 0
    /\ servedSinceRefresh = 0
    /\ scrapes = 0
    /\ iss = IdleIssues
    /\ call = NoCall

----------------------------------------------------------------------------
(* SpecRequestSentry: requestSentry called with any accepted-status list   *)
(* and any outcome of client.Do.                                           *)

\* the valid_status_codes lists of the module configurations
StatusCodeLists ==
    {<<>>, <<200>>, <<204>>, <<301>>, <<404>>, <<500>>, <<200, 301>>, <<204, 404>>,
     <<199, 300>>}

StatusCodeConfigs ==
    [RateLimit : {FALSE}, ValidStatusCodes : StatusCodeLists, Headers : {NoHeaders},
     Issues : {NoIssuesOptions}]

\* the status codes of the responses
Statuses == {100, 199, 200, 201, 204, 299, 300, 301, 302, 404, 500, 503}

\* sentry.go:53: what client.Do returns
DoReplies ==
    {TransportError, RedirectError}
    \cup {Reply(FALSE, FALSE, status, FALSE, <<>>) : status \in Statuses}

RequestSentryInit == IdleState /\ config \in StatusCodeConfigs

RequestSentryCall(replies) ==
    /\ \E reply \in replies :
         call' = [name |-> "requestSentry", args |-> reply,
                  result |-> requestSentry(config, reply)]
    /\ UNCHANGED <<allProjectsCache, timesSinceUpdate, config, crashed, orch, wk, out,
                   listCalls, servedSinceRefresh, scrapes, iss>>

NextRequestSentry == RequestSentryCall(DoReplies)

SpecRequestSentry == RequestSentryInit /\ [][NextRequestSentry]_vars

----------------------------------------------------------------------------
(* SpecHeaders: the header loop of requestSentry, one configured header a  *)
(* step, in any order (the iteration order of a Go map is not fixed).      *)
(* A header name is the sequence of its characters.                        *)

LowerLetters == <<"a", "c", "e", "h", "k", "n", "o", "p", "s", "t", "x">>
UpperLetters == <<"A", "C", "E", "H", "K", "N", "O", "P", "S", "T", "X">>

IsLower(c) == \E k \in 1..Len(LowerLetters) : LowerLetters[k] = c
IsUpper(c) == \E k \in 1..Len(UpperLetters) : UpperLetters[k] = c

ToUpper(c) ==
    IF IsLower(c)
    THEN UpperLetters[CHOOSE k \in 1..Len(LowerLetters) : LowerLetters[k] = c]
    ELSE c

ToLower(c) ==
    IF IsUpper(c)
    THEN LowerLetters[CHOOSE k \in 1..Len(UpperLetters) : UpperLetters[k] = c]
    ELSE c

\* strings.Title: the first letter of every word in upper case, every other
\* character as it is
Title(key) ==
    [k \in 1..Len(key) |->
        IF k = 1 \/ ~(IsLower(key[k - 1]) \/ IsUpper(key[k - 1]))
        THEN ToUpper(key[k]) ELSE key[k]]

\* the key under which http.Header.Set stores a value
CanonicalKey(key) ==
    [k \in 1..Len(key) |->
        IF k = 1 \/ key[k - 1] = "-" THEN ToUpper(key[k]) ELSE ToLower(key[k])]

EqualFold(a, b) ==
    /\ Len(a) = Len(b)
    /\ \A k \in 1..Len(a) : ToLower(a[k]) = ToLower(b[k])

HostKey == <<"H", "o", "s", "t">>

\* the spellings of the Host header in a configuration
HostSpellings ==
    {<<"h", "o", "s", "t">>, <<"H", "o", "s", "t">>, <<"H", "O", "S", "T">>,
     <<"h", "O", "S", "T">>}

OtherKeys == {<<"x", "-", "t", "o", "k", "e", "n">>, <<"A", "c", "c", "e", "p", "t">>}

HeaderValues == {"a", "b"}

\* the key sets of the configured header maps: at most one spelling of Host
HeaderKeySets ==
    {hs \cup os : hs \in {{}} \cup {{h} : h \in HostSpellings}, os \in SUBSET OtherKeys}

HeaderMaps == UNION {[keys -> HeaderValues] : keys \in HeaderKeySets}

HeaderConfigs ==
    [RateLimit : {FALSE}, ValidStatusCodes : {<<>>}, Headers : HeaderMaps,
     Issues : {NoIssuesOptions}]

\* http.NewRequest takes the virtual host from the URL, config.Domain
DomainHost == "domain"

NewRequest == [Host |-> DomainHost, Header |-> <<>>]

HeaderSet(header, key, value) ==
    [k \in DOMAIN header \cup {CanonicalKey(key)} |->
        IF k = CanonicalKey(key) THEN value ELSE header[k]]

\* sentry.go:46-50, the body of the loop for one header
SetHeader(request, key, value) ==
    IF Title(key) = HostKey
    THEN [request EXCEPT !.Host = value]
    ELSE [request EXCEPT !.Header = HeaderSet(request.Header, key, value)]

HeadersInit == IdleState /\ config \in HeaderConfigs

HeadersStart ==
    /\ call = NoCall
    /\ call' = [name |-> "headers", args |-> DOMAIN config.Headers, result |-> NewRequest]
    /\ UNCHANGED <<allProjectsCache, timesSinceUpdate, config, crashed, orch, wk, out,
                   listCalls, servedSinceRefresh, scrapes, iss>>

HeaderStep ==
    /\ call.name = "headers"
    /\ \E key \in call.args :
         call' = [call EXCEPT !.args = call.args \ {key},
                              !.result = SetHeader(call.result, key, config.Headers[key])]
    /\ UNCHANGED <<allProjectsCache, timesSinceUpdate, config, crashed, orch, wk, out,
                   listCalls, servedSinceRefresh, scrapes, iss>>

\* sentry.go:53: the request goes to client.Do
HeadersSent ==
    /\ call.name = "headers"
    /\ call.args = {}
    /\ call' = [call EXCEPT !.name = "sent"]
    /\ UNCHANGED <<allProjectsCache, timesSinceUpdate, config, crashed, orch, wk, out,
                   listCalls, servedSinceRefresh, scrapes, iss>>

NextHeaders == HeadersStart \/ HeaderStep \/ HeadersSent

SpecHeaders == HeadersInit /\ [][NextHeaders]_vars

----------------------------------------------------------------------------
(* SpecHandler: /probe requests served one after another by probeHandler,  *)
(* with any module, prober and target parameter, against an upstream that  *)
(* answers every call well.                                                *)

\* requests served one after another in the specification SpecHandler
MaxHandlerScrapes == 2

\* part_000:36-38: the modules of the configuration file
Modules == {"sentry"}

\* part_000:70-73
Probers == {"lag", "issues"}

ModuleParams == {"", "sentry", "nope"}
ProberParams == {"", "lag", "issues", "http_lag"}

\* the query strings of the requests; an absent parameter is ""
ProbeParams == [module : ModuleParams, prober : ProberParams, target : LagTargets]

NoProbe == ""

\* part_000:97-117 probeHandler, up to the call of the prober
probeHandler(params) ==
    LET moduleName == IF params.module = "" THEN "sentry" ELSE params.module
        proberName == params.prober
        \* part_000:110-112 tests the module name, which is not empty here
        moduleName2 == IF moduleName = "" THEN "http_lag" ELSE moduleName
    IN IF moduleName \notin Modules
       THEN [status |-> 400, error |-> "Unknown module", module |-> moduleName,
             prober |-> NoProbe]
       ELSE IF proberName \notin Probers
            THEN [status |-> 400, error |-> "Unknown prober", module |-> moduleName2,
                  prober |-> NoProbe]
            ELSE [status |-> 200, error |-> "", module |-> moduleName2,
                  prober |-> proberName]

\* a request is being served: its prober has not returned
InFlight ==
    /\ call.name = "probeHandler"
    /\ call.result.prober # NoProbe
    /\ call.args.request = scrapes

ProbeHandler(paramsSet, limit) ==
    /\ ~InFlight
    /\ scrapes < limit
    /\ \E params \in paramsSet :
         LET result == probeHandler(params)
         IN /\ call' = [name |-> "probeHandler",
                        args |-> [module |-> params.module, prober |-> params.prober,
                                  target |-> params.target, request |-> scrapes],
                        result |-> result]
            /\ scrapes' = IF result.prober = NoProbe THEN scrapes + 1 ELSE scrapes
    /\ UNCHANGED <<allProjectsCache, timesSinceUpdate, config, crashed, orch, wk, out,
                   listCalls, servedSinceRefresh, iss>>

\* the request carries none of the parameters of the issues prober
TargetOnlyValues == {NoValues}

\* part_000:121: the prober is called with the parameters of the request
CallProber(limit) ==
    /\ InFlight
    /\ iss.pc = "idle"
    /\ \/ /\ call.result.prober = "lag"
          /\ ProbeLagStart(1, {call.args.target}, limit)
       \/ /\ call.result.prober = "issues"
          /\ ProbeIssuesStart(TargetOnlyValues, limit)

HealthyIssuesLists == {Page(<< Issue("1", "p1") >>, NoLink)}
HealthyIssuesStats == {Good(<< IssueStat("1", <<"2", "0", "0", "0", "0">>) >>)}

HandlerInit == IdleState /\ config \in Configs

NextHandler ==
    \/ ProbeHandler(ProbeParams, MaxHandlerScrapes)
    \/ CallProber(MaxHandlerScrapes)
    \/ GetOrUpdateProjectsList(1, HealthyLists)
    \/ Orchestrator(1)
    \/ HealthyWorker(1, 1)
    \/ WalkPage(HealthyIssuesLists, HealthyIssuesStats)
    \/ WriteIssueLines
    \/ IssuesProbeSuccess
    \/ ProbeIssuesReturn

SpecHandler == HandlerInit /\ [][NextHandler]_vars

----------------------------------------------------------------------------
(* SpecReload: the configuration file is reloaded, by SIGHUP or by         *)
(* POST /-/reload, at any moment while issues scrapes are served one after *)
(* another against an upstream that answers every call well.               *)

\* reloads in the specification SpecReload
MaxReloads == 2

\* issues scrapes run one after another in the specification SpecReload
MaxReloadScrapes == 1

ReloadOptions == [Timeout : {0}, Period : {"", "24h"}, Above : {0, 7}]

\* the valid_status_codes of the configuration files: none, or only 404
ReloadStatusCodes == {<<>>, <<404>>}

ReloadConfigs ==
    [RateLimit : {FALSE}, ValidStatusCodes : ReloadStatusCodes, Headers : {NoHeaders},
     Issues : ReloadOptions]

\* the issues list answers 200 with one page, or with a page and a next cursor
ReloadIssuesLists ==
    {Page(<< Issue("1", "p1") >>, NoLink), Page(<< Issue("1", "p1") >>, NextLink("c1"))}

\* the configuration file at the moment of a reload: unreadable, or readable
\* with a content that parses or not
ConfigFiles ==
    {[readErr |-> TRUE, parseErr |-> FALSE, content |-> NoModule]}
    \cup [readErr : {FALSE}, parseErr : BOOLEAN, content : ReloadConfigs]

\* a reloadConfig that publishes its new Config before it looks at the errors
reloadConfig_Publish(C, file) ==
    IF file.readErr \/ file.parseErr
    THEN [C |-> NoModule, err |-> TRUE]
    ELSE [C |-> file.content, err |-> FALSE]

\* part_000:75-95 reloadConfig: sc.C after the call, and the error returned
reloadConfig(C, file) ==
    IF file.readErr
    THEN [C |-> C, err |-> TRUE]
    ELSE IF file.parseErr
         THEN [C |-> C, err |-> TRUE]
         ELSE [C |-> file.content, err |-> FALSE]

Reloads == IF call.name = "reloadConfig" THEN call.result.n ELSE 0

\* part_000:160-176 and 187-200: one reload; old is the configuration that
\* was active when the reload began
Reload(files) ==
    /\ Reloads < MaxReloads
    /\ \E file \in files :
         LET r == reloadConfig(config, file)
         IN /\ config' = r.C
            /\ call' = [name |-> "reloadConfig", args |-> file,
                        result |-> [err |-> r.err, old |-> config, n |-> Reloads + 1]]
    /\ UNCHANGED <<allProjectsCache, timesSinceUpdate, crashed, orch, wk, out,
                   listCalls, servedSinceRefresh, scrapes, iss>>

\* part_000:153: the exporter starts only with a configuration that loaded
ReloadInit == IdleState /\ config \in ReloadConfigs

NextReload ==
    \/ Reload(ConfigFiles)
    \/ ProbeIssuesStart(TargetOnlyValues, MaxReloadScrapes)
    \/ WalkPage(ReloadIssuesLists, HealthyIssuesStats)
    \/ WriteIssueLines
    \/ IssuesProbeSuccess
    \/ ProbeIssuesReturn

SpecReload == ReloadInit /\ [][NextReload]_vars

----------------------------------------------------------------------------
(* SpecErrorRate: extractErrorRate called with any body of the stats       *)
(* endpoint: a series of buckets <<timestamp, count>>, oldest first, with  *)
(* timestamps that grow from 1, or a body that does not decode.            *)

\* buckets of a series
MaxBuckets == 4

\* events counted in a bucket
MaxCount == 2

SeriesOf(n) == {[k \in 1..n |-> <<k, counts[k]>>] : counts \in [1..n -> 0..MaxCount]}

AllSeries == UNION {SeriesOf(n) : n \in 0..MaxBuckets}

ErrorRateBodies == {Malformed} \cup {Good(series) : series \in AllSeries}

ErrorRateInit == IdleState /\ config = NoModule

ExtractErrorRateCall(bodies) ==
    /\ \E body \in bodies :
         call' = [name |-> "extractErrorRate", args |-> body,
                  result |-> extractErrorRate(body)]
    /\ UNCHANGED <<allProjectsCache, timesSinceUpdate, config, crashed, orch, wk, out,
                   listCalls, servedSinceRefresh, scrapes, iss>>

NextErrorRate == ExtractErrorRateCall(ErrorRateBodies)

SpecErrorRate == ErrorRateInit /\ [][NextErrorRate]_vars

----------------------------------------------------------------------------
(* SpecRateLimit: extractRateLimit called with any body of the keys        *)
(* endpoint: a list of keys, each with a rate-limit descriptor or none, or *)
(* a body that does not decode.                                            *)

\* keys of a project
MaxKeys == 3

RateLimitWindows == {1, 60}
RateLimitCounts == {0, 3, 120}

\* the keys of a project: RateLimit is nil, or a descriptor
ProjectKeys ==
    {NoRateLimit} \cup [Window : RateLimitWindows, Count : RateLimitCounts, present : {TRUE}]

AllKeyLists == UNION {[1..n -> ProjectKeys] : n \in 0..MaxKeys}

RateLimitBodies == {Malformed} \cup {Good(keys) : keys \in AllKeyLists}

RateLimitInit == IdleState /\ config = NoModule

ExtractRateLimitCall(bodies) ==
    /\ \E body \in bodies :
         call' = [name |-> "extractRateLimit", args |-> body,
                  result |-> extractRateLimit(body)]
    /\ UNCHANGED <<allProjectsCache, timesSinceUpdate, config, crashed, orch, wk, out,
                   listCalls, servedSinceRefresh, scrapes, iss>>

NextRateLimit == ExtractRateLimitCall(RateLimitBodies)

SpecRateLimit == RateLimitInit /\ [][NextRateLimit]_vars

----------------------------------------------------------------------------
(* SpecCursor: getSentryNextCursor called on any link header, and called   *)
(* again on the same header.  A header is the list of its parts, a part    *)
(* the list of its segments.                                               *)

\* parts of a link header
MaxParts == 3

LinkRels == {"previous", "next"}
LinkCursors == {"c1", "c2"}

\* the parts: a rel segment, with a cursor segment after it or without one
LinkParts ==
    {<< Seg("rel", rel) >> : rel \in LinkRels}
    \cup {<< Seg("rel", rel), Seg("cursor", cursor) >> : rel \in LinkRels, cursor \in LinkCursors}

LinkHeaders == UNION {[1..n -> LinkParts] : n \in 0..MaxParts}

NotParsed == [cursor |-> <<>>, err |-> FALSE]

CursorInit == IdleState /\ config = NoModule

GetSentryNextCursorCall(links) ==
    /\ \E link \in links :
         call' = [name |-> "getSentryNextCursor", args |-> link,
                  result |-> [first |-> getSentryNextCursor(link), again |-> NotParsed,
                              calls |-> 1]]
    /\ UNCHANGED <<allProjectsCache, timesSinceUpdate, config, crashed, orch, wk, out,
                   listCalls, servedSinceRefresh, scrapes, iss>>

\* the same header is parsed a second time
GetSentryNextCursorAgain ==
    /\ call.name = "getSentryNextCursor"
    /\ call.result.calls = 1
    /\ call' = [call EXCEPT !.result.again = getSentryNextCursor(call.args),
                            !.result.calls = 2]
    /\ UNCHANGED <<allProjectsCache, timesSinceUpdate, config, crashed, orch, wk, out,
                   listCalls, servedSinceRefresh, scrapes, iss>>

NextCursor == GetSentryNextCursorCall(LinkHeaders) \/ GetSentryNextCursorAgain

SpecCursor == CursorInit /\ [][NextCursor]_vars

----------------------------------------------------------------------------
(* SpecWalk: one issues scrape with a threshold from the query string,     *)
(* against an upstream that may answer every call in any way, the replies  *)
(* of each page kept as history.                                           *)

\* issues scrapes in the specification SpecWalk
MaxWalkScrapes == 1

\* the query strings: no threshold (10000 applies), 5 and 9
WalkValues == [timeout : {<<>>}, above : {<<>>, <<"5">>, <<"9">>}, period : {""}]

WalkInit == IdleState /\ config = NoModule

NextWalk ==
    \/ ProbeIssuesStart(WalkValues, MaxWalkScrapes)
    \/ WalkPageOf(IssuesListReplies, IssuesStatsReplies, TRUE)
    \/ WriteIssueLines
    \/ IssuesProbeSuccess
    \/ ProbeIssuesReturn

SpecWalk == WalkInit /\ [][NextWalk]_vars

(* SpecThreshold: one issues scrape with an above parameter that is        *)
(* absent, a number, not a number, or a number no int holds.               *)

\* twenty nines: above the largest int of every build
TooLarge ==
    <<"9", "9", "9", "9", "9", "9", "9", "9", "9", "9",
      "9", "9", "9", "9", "9", "9", "9", "9", "9", "9">>

ThresholdAbove == {<<>>, <<"9">>, <<"x">>, TooLarge}

ThresholdValues == [timeout : {<<>>}, above : ThresholdAbove, period : {"", "7d"}]

\* the module configures a threshold or none
ThresholdOptions == [Timeout : {0}, Period : {""}, Above : {0, 7}]

ThresholdConfigs ==
    [RateLimit : {FALSE}, ValidStatusCodes : {<<>>}, Headers : {NoHeaders},
     Issues : ThresholdOptions]

\* the answers to the issues-list request
ThresholdListReplies ==
    {TransportError, BadStatus,
     Page(<< Issue("1", "p1"), Issue("2", "p2") >>, NoLink),
     Page(<< Issue("1", "p1"), Issue("2", "p2") >>, NextLink("c1"))}

\* the answers to the issues-stats request, one of them with a negative count
ThresholdStatsReplies ==
    {BadStatus, Malformed,
     Good(<< IssueStat("1", <<"9">>), IssueStat("2", <<"3">>) >>),
     Good(<< IssueStat("1", <<"9">>), IssueStat("2", <<"9">>) >>),
     Good(<< IssueStat("1", <<"-", "1">>) >>)}

ThresholdInit == IdleState /\ config \in ThresholdConfigs

NextThreshold ==
    \/ ProbeIssuesStart(ThresholdValues, MaxWalkScrapes)
    \/ WalkPageOf(ThresholdListReplies, ThresholdStatsReplies, TRUE)
    \/ WriteIssueLines
    \/ IssuesProbeSuccess
    \/ ProbeIssuesReturn

SpecThreshold == ThresholdInit /\ [][NextThreshold]_vars

----------------------------------------------------------------------------
(* SpecLive: the lag scrapes of Spec against an upstream that answers      *)
(* every call, in any way, with the Go scheduler running every goroutine   *)
(* that can take a step, the handler's and each worker's.                  *)

Fairness ==
    /\ WF_vars(GetOrUpdateProjectsList(1, ListReplies))
    /\ WF_vars(Orchestrator(1))
    /\ \A i \in 1..Cardinality(Projects) : WF_vars(Worker(1, i))

SpecLive == LagInit /\ [][Next]_vars /\ Fairness

----------------------------------------------------------------------------
(* SpecIssues: issues scrapes served one after another, with any query     *)
(* string and any module configuration, against an upstream that may       *)
(* answer every call in any way.                                           *)

NextIssues ==
    \/ ProbeIssuesStart(IssuesValues, MaxIssueScrapes)
    \/ WalkPage(IssuesListReplies, IssuesStatsReplies)
    \/ WriteIssueLines
    \/ IssuesProbeSuccess
    \/ ProbeIssuesReturn

SpecIssues == IssuesInit /\ [][NextIssues]_vars

----------------------------------------------------------------------------
(* The claims about the lag prober and the project cache.                  *)

\* prober_lag.go:127-140: the upstream calls one worker makes
CallsPerWorker == IF config.RateLimit THEN 3 ELSE 2

FailsAll(w) == Len(w.failed) = CallsPerWorker
FailsNone(w) == Len(w.failed) = 0

\* C1: in a lag scrape over N >= 1 targets of which K fail every sub-call and
\* the others fail none, the sentry_fetch_failures line carries 2*K (3*K with
\* rate-limit reporting), whatever the interleaving of the workers.
C1_FailuresExact ==
    \A h \in Handlers :
        ( /\ orch[h].pc = "done"
          /\ Len(orch[h].targets) >= 1
          /\ \A i \in DOMAIN wk[h] : FailsAll(wk[h][i]) \/ FailsNone(wk[h][i]) )
        => Line("sentry_fetch_failures", "", "",
                CallsPerWorker * Cardinality({i \in DOMAIN wk[h] : FailsAll(wk[h][i])}))
               \in out[h]

\* C2: a worker's upstream call that ends in a transport error makes
\* requestSentry return an error to the worker (which then counts it and goes
\* on); it never takes the process down.
C2_TransportErrorReturned ==
    /\ ~crashed
    /\ \A h \in Handlers : \A i \in DOMAIN wk[h] : wk[h][i].step # "panic"

\* C3 (as stated): after exactly 51 sequential all-projects scrapes the
\* project-list endpoint has been requested exactly twice.
C3_TwoCallsAfter51 ==
    (orch[1].pc = "idle" /\ scrapes = StaleLimit + 1) => listCalls = 2

\* C3 (amended): after n sequential all-projects scrapes against a healthy
\* upstream the project-list endpoint has been requested ceil(n / 52) times:
\* once after 51 scrapes, twice only from the 53rd scrape on.
C3_ListCallsAfterScrapes ==
    orch[1].pc = "idle"
        => listCalls = (scrapes + StaleLimit + 1) \div (StaleLimit + 2)

C3_SecondRefreshReached ==
    orch[1].pc = "idle" /\ scrapes = StaleLimit + 3 /\ listCalls = 2

\* C4: a lag scrape with an explicit target probes exactly that project,
\* issues no project-list request and leaves the cached list and the
\* staleness counter as they were.
C4_ExplicitTargetFrame ==
    \A h \in Handlers :
        (orch[h].pc # "idle" /\ orch[h].target # "")
        => /\ orch[h].targets = <<orch[h].target>>
           /\ DOMAIN wk[h] = {1}
           /\ \A l \in out[h] : l.project \in {"", orch[h].target}
           /\ listCalls = orch[h].snap.listCalls
           /\ allProjectsCache = orch[h].snap.cache
           /\ timesSinceUpdate = orch[h].snap.tsu

C4_ExplicitTargetDone ==
    /\ orch[1].pc = "done"
    /\ orch[1].target = "p2"
    /\ allProjectsCache = <<"p1", "p2">>
    /\ \E l \in out[1] : l.project = "p2"

\* C5: with two all-projects scrapes running at the same time the
\* refresh-or-serve decision is atomic: the staleness counter never exceeds
\* 51 and equals the number of increments executed since the last reset.
C5_AtomicDecision ==
    /\ timesSinceUpdate <= StaleLimit + 1
    /\ timesSinceUpdate = servedSinceRefresh

\* the handler has left getOrUpdateProjectsList and runs its workers
PastProjectsList(o) == o.pc \in {"launch", "receive", "aggregate", "emit", "done", "end"}

\* C23: an all-projects lag scrape that finds the cache non-empty and the
\* staleness counter at most 50 issues no project-list request, works on
\* the cached list, leaves the cache as it was and raises the counter by
\* exactly 1; a scrape that refreshes issues one request, replaces the cache
\* by the list it fetched and resets the counter to 0.
C23_ServeOrRefresh ==
    LET o == orch[1]
    IN (o.pc \notin {"idle", "panic"} /\ o.target = "") =>
         IF o.snap.cache # <<>> /\ o.snap.tsu <= StaleLimit
         THEN /\ listCalls = o.snap.listCalls
              /\ allProjectsCache = o.snap.cache
              /\ timesSinceUpdate \in {o.snap.tsu, o.snap.tsu + 1}
              /\ PastProjectsList(o) =>
                    /\ timesSinceUpdate = o.snap.tsu + 1
                    /\ o.targets = o.snap.cache
         ELSE /\ o.pc = "return" => allProjectsCache = o.fetched
              /\ (o.pc = "return" \/ PastProjectsList(o)) =>
                    /\ listCalls = o.snap.listCalls + 1
                    /\ timesSinceUpdate = 0
                    /\ o.targets = IF o.pc = "return" THEN <<>> ELSE allProjectsCache

C23_ServedFromCache ==
    /\ orch[1].pc = "end"
    /\ orch[1].target = ""
    /\ orch[1].snap.cache = <<"p1", "p2">>
    /\ orch[1].snap.tsu = 0
    /\ timesSinceUpdate = 1
    /\ listCalls = 1

\* the largest element of a non-empty set of integers
MaxOf(S) == CHOOSE x \in S : \A y \in S : y <= x

\* the values of the lines of a name that a scrape has written
ValuesOf(lines, name) == {l.value : l \in {m \in lines : m.name = name}}

\* C11: when a lag scrape has written its aggregates,
\* sentry_events_latest_timestamp and sentry_events_lag_seconds are present
\* iff some worker reported a nonzero timestamp, and then they carry the
\* maximum of the reported timestamps and the lag computed from it.
C11_LatestIsMaximum ==
    \A h \in Handlers :
        orch[h].pc = "done" =>
            LET nonzero == {wk[h][i].latestTimestamp : i \in DOMAIN wk[h]} \ {0}
                latest == ValuesOf(out[h], "sentry_events_latest_timestamp")
                lag == ValuesOf(out[h], "sentry_events_lag_seconds")
            IN IF nonzero = {}
               THEN latest = {} /\ lag = {}
               ELSE latest = {MaxOf(nonzero)} /\ lag = {Now - MaxOf(nonzero)}

C11_MaximumNotLast ==
    /\ orch[1].pc = "done"
    /\ DOMAIN wk[1] = {1, 2}
    /\ orch[1].ch = <<>>
    /\ wk[1][1].latestTimestamp = 2
    /\ wk[1][2].latestTimestamp = 1
    /\ Line("sentry_events_latest_timestamp", "", "", 2) \in out[1]

\* the lines of a scrape that carry a project label
PerProject(lines) == {l \in lines : l.project # ""}

\* C12: the aggregates of a lag scrape are written only after every worker
\* has finished: once the orchestrator is past the barrier every worker has
\* returned, and from then on the failure counter and the per-project lines
\* of the scrape do not change.
C12_AggregatesAfterWorkers ==
    [][\A h \in Handlers :
          /\ orch'[h].pc \in {"aggregate", "done", "end"}
                => \A i \in DOMAIN wk'[h] : wk'[h][i].stage = "done"
          /\ (orch[h].pc \in {"aggregate", "done", "end"} /\ orch'[h].pc # "idle")
                => /\ orch'[h].failures = orch[h].failures
                   /\ PerProject(out'[h]) = PerProject(out[h])]_vars

C12_AggregatesWritten ==
    /\ orch[1].pc = "done"
    /\ DOMAIN wk[1] = {1, 2}
    /\ \A i \in DOMAIN wk[1] : wk[1][i].stage = "done"
    /\ orch[1].failures > 0
    /\ PerProject(out[1]) # {}
    /\ Line("sentry_fetch_failures", "", "", orch[1].failures) \in out[1]

\* C13: the writes of the workers of a scrape to the response are
\* serialized: at no time are two workers inside a write.
C13_WritesSerialized ==
    \A h \in Handlers :
        Cardinality({i \in DOMAIN wk[h] : wk[h][i].step = "write"}) <= 1

----------------------------------------------------------------------------
(* The claims about the response of a scrape.                              *)

\* C14: a scrape that reached a prober ends with probe_success 0 exactly
\* when the issues prober was given an invalid period; every other scrape,
\* those whose upstream calls fail included, ends with probe_success 1.
C14_ProbeSuccess ==
    /\ ~crashed
    /\ \A h \in Handlers :
          orch[h].pc \in {"end", "panic"} => orch[h].probe_success = 1
    /\ iss.pc \in {"end", "panic"}
          => iss.probe_success = IF iss.period \in {"14d", "24h"} THEN 1 ELSE 0

\* the upstream calls of the workers of a scrape that returned an error
FailedCalls(h) ==
    SumOf([i \in DOMAIN wk[h] |-> Len(wk[h][i].failed)], DOMAIN wk[h])

\* C15: every scrape whose prober ran to completion, lag or issues, has
\* written exactly one sentry_fetch_failures line, also when the count is 0,
\* and its value is the number of upstream calls of the scrape that failed.
C15_FetchFailuresLine ==
    /\ \A h \in Handlers :
          orch[h].pc \in {"done", "end"}
              => \E n \in 0..(1 + FailedCalls(h)) :
                    /\ ValuesOf(out[h], "sentry_fetch_failures") = {n}
                    /\ orch[h].target # "" => n = FailedCalls(h)
    /\ (iss.pc \in {"done", "end"} /\ iss.ret)
          => ValuesOf(iss.lines, "sentry_fetch_failures")
                = {IF iss.failed = "none" THEN 0 ELSE 1}

----------------------------------------------------------------------------
(* The claims about requestSentry.                                         *)

\* C16: requestSentry returns a response that client.Do delivered as success
\* iff its status code is in the configured list when the list is not
\* empty (a 2xx code outside the list is rejected), and iff
\* 200 <= status < 300 when the list is empty.
C16_AcceptedStatus ==
    (call.name = "requestSentry" /\ ~call.args.doErr) =>
        LET codes == config.ValidStatusCodes
            status == call.args.status
        IN IF codes # <<>>
           THEN call.result = "ok" <=> \E k \in 1..Len(codes) : codes[k] = status
           ELSE call.result = "ok" <=> (status >= 200 /\ status <= 299)

C16_SuccessCodeOutsideList ==
    /\ call.name = "requestSentry"
    /\ config.ValidStatusCodes = <<204, 404>>
    /\ ~call.args.doErr
    /\ call.args.status = 200
    /\ call.result = "err"

\* C17: in the request that requestSentry sends, every configured header
\* whose name equals "Host" when case is ignored has become the virtual
\* host and is no entry of the header map, and every other configured
\* header is an entry of the header map.
C17_HostHeaderAnyCase ==
    call.name = "sent" =>
        \A key \in DOMAIN config.Headers :
            IF EqualFold(key, HostKey)
            THEN /\ call.result.Host = config.Headers[key]
                 /\ HostKey \notin DOMAIN call.result.Header
            ELSE /\ CanonicalKey(key) \in DOMAIN call.result.Header
                 /\ call.result.Header[CanonicalKey(key)] = config.Headers[key]

----------------------------------------------------------------------------
(* The claims about probeHandler and the configuration.                    *)

\* C18: a /probe request of the default module that names no prober, with
\* or without a target, is answered by running a prober.
C18_ProbeWithoutProber ==
    (call.name = "probeHandler" /\ call.args.module = "" /\ call.args.prober = "") =>
        /\ call.result.status = 200
        /\ call.result.prober \in Probers

\* C19: a reload whose file cannot be read or parsed leaves the active
\* configuration as it was, and a probe started after such a reload works
\* with the configuration that was active before the reload.
C19_FailedReloadKeepsConfig ==
    /\ (call.name = "reloadConfig" /\ call.result.err) => config = call.result.old
    /\ (iss.pc # "idle" /\ iss.before.name = "reloadConfig" /\ iss.before.result.err) =>
          /\ iss.module = iss.before.result.old
          /\ iss.pc # "done" => iss.period = period(iss.values, iss.before.result.old)
          /\ iss.above = above(iss.values, iss.before.result.old)

C19_ProbeAfterFailedReload ==
    /\ iss.pc = "end"
    /\ iss.before.name = "reloadConfig"
    /\ iss.before.result.err
    /\ iss.before.args.parseErr
    /\ iss.before.args.content.Issues.Period = ""
    /\ iss.module.Issues.Period = "24h"
    /\ iss.period = "24h"

----------------------------------------------------------------------------
(* The claims about extractErrorRate.                                      *)

\* the sum of the counts of the first n buckets of a series
RECURSIVE SumOfCounts(_, _)
SumOfCounts(series, n) ==
    IF n = 0 THEN 0 ELSE SumOfCounts(series, n - 1) + series[n][2]

NonZeroBuckets(series) == {k \in 1..Len(series) : series[k][2] > 0}

----------------------------------------------------------------------------
(* The claims about extractRateLimit and getSentryNextCursor.              *)

\* C21: extractRateLimit returns the quotient Count / Window of the
\* descriptor of the first key, whatever the later keys are, and returns 0
\* without error when the key list is empty or its first key has no
\* descriptor.
C21_RateOfFirstKey ==
    (call.name = "extractRateLimit" /\ ~call.args.malformed) =>
        LET keys == call.args.val
            rate == call.result.rate
        IN /\ ~call.result.err
           /\ rate[2] # 0
           /\ IF keys = <<>> \/ ~keys[1].present
              THEN rate[1] = 0
              ELSE rate[1] * keys[1].Window = keys[1].Count * rate[2]

C21_TwoPerSecond ==
    /\ call.name = "extractRateLimit"
    /\ Len(call.args.val) = 2
    /\ call.args.val[1] = [Window |-> 60, Count |-> 120, present |-> TRUE]
    /\ call.args.val[2] = [Window |-> 1, Count |-> 3, present |-> TRUE]
    /\ call.result.rate[1] = 2 * call.result.rate[2]

IsNextPart(part) == \E j \in 1..Len(part) : part[j] = Seg("rel", "next")

\* C22: parsing the same link header twice gives the same result; a header
\* with no rel="next" part gives the empty cursor and an error; and a
\* cursor that is returned is the cursor segment of a rel="next" part.
C22_NextCursor ==
    call.name = "getSentryNextCursor" =>
        LET link == call.args
            first == call.result.first
            nextParts == {k \in 1..Len(link) : IsNextPart(link[k])}
        IN /\ call.result.calls = 2 => call.result.again = first
           /\ nextParts = {} => first = [cursor |-> <<>>, err |-> TRUE]
           /\ first.err => first.cursor = <<>>
           /\ ~first.err =>
                 \E k \in nextParts : \E j \in 1..Len(link[k]) :
                     /\ link[k][j].key = "cursor"
                     /\ first.cursor = <<"cursor=", link[k][j].val>>
           /\ (\E k \in nextParts : \E j \in 1..Len(link[k]) : link[k][j].key = "cursor")
                 => ~first.err

C22_NextAfterPrevious ==
    /\ call.name = "getSentryNextCursor"
    /\ call.args = << << Seg("rel", "previous"), Seg("cursor", "c1") >>,
                      << Seg("rel", "next"), Seg("cursor", "c2") >> >>
    /\ call.result.calls = 2
    /\ call.result.again = [cursor |-> <<"cursor=", "c2">>, err |-> FALSE]

----------------------------------------------------------------------------
(* The claims about the issues prober.                                     *)

\* C6: whatever the upstream answers, the pagination walk fetches at most
\* ceil(totalQualifyingIssues / 25) + 1 issues-list pages and never requests
\* a page with a cursor it has already used in the same walk.
C6_WalkBounded ==
    /\ iss.pages <= (iss.total + PageLimit - 1) \div PageLimit + 1
    /\ ~iss.reused

\* C7: a timeout query parameter that parses as a duration is the timeout of
\* the client of the scrape; without the parameter the client has the
\* module's timeout; the parameter never leaves the client without a timeout.
C7_TimeoutFromParameter ==
    iss.pc # "idle" =>
        LET parsed == ParseDuration(iss.values.timeout)
        IN /\ (iss.values.timeout # <<>> /\ ~parsed.err)
                 => iss.client.Timeout = parsed.d
           /\ iss.values.timeout = <<>>
                 => iss.client.Timeout = config.Issues.Timeout
           /\ (iss.values.timeout # <<>> /\ config.Issues.Timeout > 0)
                 => iss.client.Timeout > 0

\* C8: an issues scrape whose resolved period is neither "14d" nor "24h"
\* returns false, writes no metric line and issues no upstream request.
C8_InvalidPeriodFails ==
    (iss.pc # "idle" /\ iss.period \notin {"14d", "24h"})
        => /\ iss.pc \in {"done", "end"}
           /\ ~iss.ret
           /\ iss.lines = {}
           /\ iss.upCalls = 0
           /\ iss.pages = 0

C8_InvalidPeriodRejected ==
    /\ iss.pc = "done"
    /\ iss.values.period = ""
    /\ config.Issues.Period = "7d"
    /\ iss.period = "7d"
    /\ ~iss.ret

\* C9: the threshold and the period of an issues scrape are those of the
\* query parameter when it is supplied, else those of the module
\* configuration when set, else 10000 and "14d".
C9_Precedence ==
    iss.pc # "idle" =>
        /\ iss.values.above # <<>>
              => iss.above = Atoi(iss.values.above).n
        /\ (iss.values.above = <<>> /\ config.Issues.Above > 0)
              => iss.above = config.Issues.Above
        /\ (iss.values.above = <<>> /\ config.Issues.Above <= 0)
              => iss.above = 10000
        /\ iss.values.period # ""
              => iss.period = iss.values.period
        /\ (iss.values.period = "" /\ config.Issues.Period # "")
              => iss.period = config.Issues.Period
        /\ (iss.values.period = "" /\ config.Issues.Period = "")
              => iss.period = "14d"

C9_ParameterOverConfig ==
    /\ iss.pc = "done"
    /\ iss.ret
    /\ iss.values.above = <<"5">>
    /\ config.Issues.Above = 7
    /\ iss.above = 5
    /\ iss.values.period = "24h"
    /\ config.Issues.Period = "7d"
    /\ iss.period = "24h"
    /\ \E l \in iss.lines : l.above = 5 /\ l.period = "24h" /\ l.value > 0

\* C10: when a step of the pagination walk fails, the walk stops at that
\* page, the counts of the earlier pages are still written and the issues
\* probe returns true.
C10_FailureEndsWalkOnly ==
    iss.failed # "none" =>
        /\ iss.pc \in {"emit", "done", "end"}
        /\ iss.pc \in {"done", "end"}
              => /\ iss.ret
                 /\ iss.lines = IssueLines(iss.issuesList, iss.total,
                                           iss.above, iss.period)

\* the issues of the last page that have a count, the count of one, and
\* those whose count reaches the threshold
PageCounted(page) == Ids(page.list.val[1]) \cap Ids(page.stats.val)
PageCount(page, id) == Atoi(LastOf(page.stats.val, id).Count).n
PageQualifying(page, thresh) ==
    {id \in PageCounted(page) : PageCount(page, id) >= thresh}

\* C24: after a page whose two requests succeeded, the issues of the page
\* that reach the threshold are counted; if an issue of the page has a
\* count below the threshold the walk holds no next cursor and fetches no
\* further page; if none has, the walk goes on to the next page iff the
\* link header has a rel="next" part with a cursor, and with that cursor.
C24_LastPage ==
    (iss.page # NoPage /\ iss.failed = "none" /\ iss.pc # "panic") =>
        LET page == iss.page
            link == page.list.val[2]
            qualifying == PageQualifying(page, iss.above)
            below == PageCounted(page) \ qualifying
        IN /\ iss.total = page.total + Cardinality(qualifying)
           /\ below # {} =>
                 /\ iss.extra = <<>>
                 /\ iss.pc \in {"emit", "done", "end"}
           /\ below = {} =>
                 /\ iss.pc = "walk" <=> ~getSentryNextCursor(link).err
                 /\ iss.pc = "walk" =>
                       \E k \in 1..Len(link) :
                           /\ IsNextPart(link[k])
                           /\ \E j \in 1..Len(link[k]) :
                                 iss.extra = <<"cursor=", link[k][j].val>>

C24_BelowThresholdEndsWalk ==
    /\ iss.pc = "end"
    /\ iss.above = 5
    /\ iss.pages = 1
    /\ iss.page.list = Page(<< Issue("1", "p1"), Issue("2", "p2") >>, NextLink("c1"))
    /\ iss.page.stats = Good(<< IssueStat("1", <<"9">>), IssueStat("2", <<"3">>) >>)
    /\ iss.total = 1

\* C25: every page adds to the total and to the per-project counts the
\* issues of the page whose count is at least the threshold, and nothing
\* when a request of the page failed; the lines written at the end carry
\* one total, equal to the sum of the per-project values, written also
\* when it is 0, and one line per project whose count is not 0.
C25_TotalIsSum ==
    /\ (iss.page # NoPage /\ iss.pc # "panic") =>
          LET page == iss.page
              q == IF iss.failed = "none" THEN PageQualifying(page, iss.above) ELSE {}
          IN /\ iss.total = page.total + Cardinality(q)
             /\ \A p \in Projects :
                   iss.issuesList[p] = page.issuesList[p]
                       + Cardinality({id \in q : LastOf(page.list.val[1], id).Slug = p})
    /\ (iss.pc \in {"done", "end"} /\ iss.ret) =>
          LET totals == {l \in iss.lines : l.name = "sentry_high_freq_issues"}
              perProject == {l \in iss.lines : l.name = "sentry_project_high_freq_issues"}
          IN /\ Cardinality(totals) = 1
             /\ \A t \in totals :
                   /\ t.value = iss.total
                   /\ t.value = SumOf([p \in Projects |->
                                         IF \E l \in perProject : l.project = p
                                         THEN (CHOOSE l \in perProject : l.project = p).value
                                         ELSE 0], Projects)
             /\ \A l \in perProject : l.value >= 1
             /\ Cardinality(perProject) = Cardinality({l.project : l \in perProject})

C25_CountEqualToThreshold ==
    /\ iss.pc = "end"
    /\ iss.above = 9
    /\ iss.page.stats = Good(<< IssueStat("1", <<"9">>), IssueStat("2", <<"9">>) >>)
    /\ iss.total = 2
    /\ \E l \in iss.lines : l.project = "p1" /\ l.value = 1
    /\ \E l \in iss.lines : l.project = "p2" /\ l.value = 1

\* C27: the upstream calls of a probe use the module configuration that
\* was read when the request was accepted, whatever reloads complete while
\* the probe runs: against an upstream that answers every request with 200,
\* the calls of a probe succeed iff that configuration accepts 200, and the
\* threshold and the period of the probe are those it gives.
C27_ProbeKeepsItsConfig ==
    iss.pc # "idle" =>
        /\ iss.pages >= 1 => (iss.failed = "none" <=> iss.module.ValidStatusCodes = <<>>)
        /\ iss.above = above(iss.values, iss.module)
        /\ iss.pc # "done" => iss.period = period(iss.values, iss.module)

C27_ReloadInFlight ==
    /\ iss.pc = "end"
    /\ iss.pages = 2
    /\ iss.failed = "none"
    /\ iss.module.ValidStatusCodes = <<>>
    /\ config.ValidStatusCodes = <<404>>
    /\ iss.before = NoCall
    /\ call.name = "reloadConfig"
    /\ ~call.result.err

----------------------------------------------------------------------------
(* The claims about the workers and the orchestrator of a lag scrape.      *)

\* prober_lag.go:127-140: the upstream calls of one worker, in order
WorkerCalls == IF config.RateLimit THEN <<"received", "rejected", "keys">>
               ELSE <<"received", "rejected">>

\* C26: a worker issues the "received" stats request, then the "rejected"
\* stats request, then the keys request iff rate-limit reporting is on, each
\* exactly once, and goes through all of them whichever of them failed.
C26_EveryStepOnce ==
    \A h \in Handlers : \A i \in DOMAIN wk[h] :
        LET w == wk[h][i]
        IN /\ w.step # "panic"
           /\ Len(w.calls) <= Len(WorkerCalls)
           /\ w.calls = SubSeq(WorkerCalls, 1, Len(w.calls))
           /\ w.stage \in {"send", "exit", "done"} => w.calls = WorkerCalls

\* the workers of handler h that have sent on the result channel
Senders(h) == {i \in DOMAIN wk[h] : wk[h][i].stage \in {"exit", "done"}}

\* C28: in a lag scrape over N targets the values in the channel and those
\* the orchestrator has received are one per worker that has sent, the
\* channel never holds more than N values, a worker that comes to its send
\* can send, and the orchestrator leaves the receive loop and the barrier
\* with N values received, one from every worker.
C28_OneValuePerWorker ==
    \A h \in Handlers :
        orch[h].pc \notin {"idle", "panic"} =>
            LET o == orch[h]
                N == Len(o.targets)
            IN /\ Len(o.ch) <= N
               /\ Len(o.ch) + o.received = Cardinality(Senders(h))
               /\ \A i \in DOMAIN wk[h] :
                     (~crashed /\ wk[h][i].stage = "send") => ENABLED ChanSend(h, i)
               /\ o.pc \in {"aggregate", "done", "end"} =>
                     /\ o.received = N
                     /\ o.ch = <<>>
                     /\ Senders(h) = 1..N

C28_TwoValuesBuffered ==
    /\ Len(orch[1].targets) = 2
    /\ Len(orch[1].ch) = 2
    /\ orch[1].received = 0
    /\ \A i \in DOMAIN wk[1] : wk[1][i].stage = "done"

\* C29: with every upstream call answered, by a response or by an error,
\* and every goroutine scheduled, a lag scrape that has its targets goes on
\* until its workers have finished, the orchestrator has passed the barrier
\* and the sentry_fetch_failures line is written.
C29_ScrapeCompletes ==
    orch[1].pc = "launch" ~>
        /\ orch[1].pc = "done"
        /\ \A i \in DOMAIN wk[1] : wk[1][i].stage = "done"
        /\ \E l \in out[1] : l.name = "sentry_fetch_failures"

\* C30: with all-projects scrapes served one after another the staleness
\* counter is in 0..51 in every state, and it is 0 from the return of
\* getOrUpdateProjectsList to the end of every scrape that issued the
\* project-list request.
C30_CounterRange ==
    /\ timesSinceUpdate \in 0..(StaleLimit + 1)
    /\ (PastProjectsList(orch[1]) /\ listCalls > orch[1].snap.listCalls)
          => timesSinceUpdate = 0

C30_CounterAtTop ==
    /\ orch[1].pc = "end"
    /\ timesSinceUpdate = StaleLimit + 1
    /\ listCalls = 1

----------------------------------------------------------------------------
(* The claims about a failed refresh of the project list.                  *)

\* the refresh outcomes that are failures
FailedRefresh == {"error", "undecodable"}

\* C31: once a project-list refresh has failed, by a request error or an
\* undecodable body, the cache is empty whatever it held before, the
\* failure counter of the scrape is 1 after a request error and 0 after an
\* undecodable body, the scrape launches no worker, and the all-projects
\* scrape that follows issues the project-list call again.
C31_FailedRefresh ==
    LET o == orch[1]
    IN /\ (o.refresh \in FailedRefresh /\ (PastProjectsList(o) \/ o.pc = "panic")) =>
             /\ allProjectsCache = <<>>
             /\ o.launched = 0
             /\ wk[1] = <<>>
       /\ (o.refresh \in FailedRefresh /\ PastProjectsList(o)) =>
             o.failures = IF o.refresh = "error" THEN 1 ELSE 0
       /\ (o.snap.refresh \in FailedRefresh /\ (PastProjectsList(o) \/ o.pc = "panic")) =>
             listCalls = o.snap.listCalls + 1

----------------------------------------------------------------------------
(* The claims about the timestamp a worker reports.                        *)

\* the answer a worker got to the call for a stat, <<>> while it got none
AnswerTo(w, stat) ==
    LET at == {k \in DOMAIN w.answers : w.calls[k] = stat}
    IN IF at = {} THEN <<>> ELSE <<w.answers[CHOOSE k \in at : TRUE]>>

\* the timestamp of the newest bucket with a count above 0 in the answer
\* to a stats call, 0 when the call failed or no bucket has one
LatestNonZero(cfg, answer) ==
    IF answer = <<>> THEN 0
    ELSE LET a == answer[1]
         IN IF requestSentry(cfg, a) # "ok" \/ a.malformed THEN 0
            ELSE IF NonZeroBuckets(a.val) = {} THEN 0
            ELSE a.val[MaxOf(NonZeroBuckets(a.val))][1]

\* the workers of handler h that have sent their timestamp
Reported(h) == {j \in DOMAIN wk[h] : wk[h][j].stage \in {"exit", "done"}}

\* C32: the timestamp a worker holds when it is about to report, and every
\* value in the channel, is the newest nonzero timestamp of the answer to
\* the worker's "received" call, 0 when that call failed; and
\* sentry_events_latest_timestamp carries a value only of that kind, and
\* is absent when every worker's is 0.
C32_ReceivedOnly ==
    LET o == orch[1]
        latest(j) == LatestNonZero(config, AnswerTo(wk[1][j], "received"))
    IN /\ \A j \in DOMAIN wk[1] :
            wk[1][j].stage \in {"send", "exit", "done"} =>
                wk[1][j].latestTimestamp = latest(j)
       /\ \A k \in DOMAIN o.ch : \E j \in Reported(1) : o.ch[k] = latest(j)
       /\ o.pc \in {"done", "end"} =>
            ValuesOf(out[1], "sentry_events_latest_timestamp")
                = {latest(j) : j \in DOMAIN wk[1]} \ {0}

\* a worker whose "received" call was rejected and whose "rejected" series
\* has data has reported 0, and the scrape has ended
C32_RejectedHasData ==
    /\ orch[1].pc = "end"
    /\ DOMAIN wk[1] = {1}
    /\ AnswerTo(wk[1][1], "received") = <<BadStatus>>
    /\ LatestNonZero(config, AnswerTo(wk[1][1], "rejected")) > 0
    /\ orch[1].latestTimestamp = -1

----------------------------------------------------------------------------
(* The claims about the ids of a page and the threshold of the issues      *)
(* probe.                                                                  *)

\* C33: after a page whose two requests succeeded, a project's count grows
\* by the issues that are both on the page and in the stats response and
\* reach the threshold; only such an issue with a count below the threshold
\* withholds the next cursor, so an id on the page without a stats record
\* and a stats record of an id not on the page change nothing; a page where
\* no id is both listed and counted adds nothing and, when the link header
\* has a rel="next" cursor, is followed by the next page.
C33_UnmatchedIgnored ==
    (iss.page # NoPage /\ iss.failed = "none" /\ iss.pc # "panic") =>
        LET page == iss.page
            listed == Ids(page.list.val[1])
            counted == Ids(page.stats.val)
            matched == listed \cap counted
            below == {id \in matched : PageCount(page, id) < iss.above}
            hasNext == ~getSentryNextCursor(page.list.val[2]).err
        IN /\ \A p \in Projects :
                 iss.issuesList[p] - page.issuesList[p] =
                     Cardinality({id \in matched \ below :
                                     LastOf(page.list.val[1], id).Slug = p})
           /\ (below = {} /\ hasNext) => (iss.pc = "walk" /\ iss.extra # <<>>)
           /\ (matched = {} /\ hasNext) =>
                 /\ iss.pc = "walk"
                 /\ iss.total = page.total
                 /\ iss.issuesList = page.issuesList

\* the page lists issue 1 only, the stats response has a record of issue 3
\* only, with a count below the threshold, and the walk goes on
C33_NoCommonId ==
    /\ iss.pc = "walk"
    /\ iss.above = DefaultAbove
    /\ iss.page.list = Page(<< Issue("1", "p1") >>, NextLink("c1"))
    /\ iss.page.stats = Good(<< IssueStat("3", <<"9">>) >>)
    /\ iss.extra # <<>>
    /\ iss.total = 0

\* the text has the form of a decimal integer: digits after an optional sign
IsIntegerText(s) ==
    IsDigits(IF Len(s) > 0 /\ s[1] \in {"+", "-"} THEN Tail(s) ELSE s)

\* the last page was fetched with both requests answered well
PageFetched ==
    iss.page # NoPage /\ iss.failed = "none" /\ iss.pc # "panic"

====
